---- MODULE Spec2Model ----
(***************************************************************************)
(* A model of s3-asset-uploader (src/index.js, src/lib/*.js): the S3Sync   *)
(* orchestrator (Gather, Digest, Sync, Publish-Manifest, Reset), the       *)
(* digest builder, the reference rewriter and the conditional upload       *)
(* against an abstract key/value object store.                             *)
(*                                                                         *)
(* Strings (file names, keys, file bodies) are sequences of tokens.  A     *)
(* token is one character, one MD5 hex digest (32 hexadecimal characters,  *)
(* kept symbolic: the digest OF some byte string), or one gzip member      *)
(* (kept symbolic: the compression OF some byte string).                   *)
(***************************************************************************)
EXTENDS Integers, Sequences, FiniteSets, TLC

VARIABLES
  options,            \* the S3SyncOptions the instance was constructed with
  files,              \* the local tree: <<[name, data]>> in readdir order
  remote,             \* the bucket: key -> stored bytes
  faulty,             \* whether the disk and the store may fail
  gatheredFilePaths,  \* this.gatheredFilePaths
  filePathToEtagMap,  \* this.filePathToEtagMap
  digest,             \* this.digest, an object: <<[name, key]>> in insertion order
  pc,                 \* where run() stands
  cursor,             \* index of the file the Digest loop / mapSeries is at
  tasks,              \* the two sub-tasks of the current file and the manifest upload
  zombies,            \* sub-tasks still in flight after their run() rejected
  outcome,            \* how run() settled: the last settlement, and the one before it
  runs,               \* number of run() calls so far
  history,            \* history: what the runs with work in flight have listed, hashed and sent
  sent,               \* history: the (file, key, bytes) of every hashed-variant upload issued
  arg,                \* input of the pure function under check
  ret,                \* its output
  peer                \* the instance of a second process on the same tree and bucket, while
                      \* the other one is stepping; <<>> when there is one process

vars == << options, files, remote, faulty, gatheredFilePaths, filePathToEtagMap, digest,
           pc, cursor, tasks, zombies, outcome, runs, history, sent,
           arg, ret, peer >>

-----------------------------------------------------------------------------
(* Tokens and strings *)

Ch(c) == [t |-> "c", ch |-> c, of |-> <<>>]

\* a string literal, written as a tuple of one-character strings
S(cs) == [i \in 1..Len(cs) |-> Ch(cs[i])]

\* the JavaScript value undefined (also stands for the empty string: both are falsy)
Undefined == <<>>

Lower == {"a","b","c","d","e","f","g","h","i","j","k","l","m","n","o","p","q",
          "r","s","t","u","v","w","x","y","z"}
Upper == {"A","B","C","D","E","F","G","H","I","J","K","L","M","N","O","P","Q",
          "R","S","T","U","V","W","X","Y","Z"}
Digit == {"0","1","2","3","4","5","6","7","8","9"}

\* [0-9a-f]{32}: the 32 hex characters of one digest
IsHash(tok) == tok.t = "md5"

\* \w
IsWord(tok) == IsHash(tok) \/ (tok.t = "c" /\ tok.ch \in Lower \cup Upper \cup Digit \cup {"_"})

IsCh(tok, c) == tok.t = "c" /\ tok.ch = c

Drop(s, n) == SubSeq(s, n + 1, Len(s))

Take(s, n) == SubSeq(s, 1, n)

\* s.endsWith(suffix)
EndsWith(s, suffix) ==
  /\ Len(suffix) <= Len(s)
  /\ SubSeq(s, Len(s) - Len(suffix) + 1, Len(s)) = suffix

\* s[a..b] is \.\w+
IsDotWord(s, a, b) ==
  /\ 1 <= a /\ a < b /\ b <= Len(s)
  /\ IsCh(s[a], ".")
  /\ \A j \in (a + 1)..b : IsWord(s[j])

\* s[a..b] is (\.\w+)+
RECURSIVE IsDotWords(_, _, _)
IsDotWords(s, a, b) ==
  \E m \in (a + 1)..b :
    /\ IsDotWord(s, a, m)
    /\ (m = b \/ IsDotWords(s, m + 1, b))

\* the least element of a non-empty set of numbers
Least(I) == CHOOSE i \in I : \A j \in I : i <= j

-----------------------------------------------------------------------------
(* src/lib/hash.js *)

\* crypto MD5, hex: one digest token; equal bytes give equal digests, and digests
\* of different bytes are taken to differ
hashFromString(data) == << [t |-> "md5", ch |-> "", of |-> <<data>>] >>

-----------------------------------------------------------------------------
(* src/index.js: key helpers *)

\* FILE_EXTENSION_REGEXP = /((\.\w+)?\.\w+)$/ matches s from position i to the end
FILE_EXTENSION_REGEXP(s, i) ==
  \/ IsDotWord(s, i, Len(s))
  \/ \E m \in (i + 1)..(Len(s) - 2) : IsDotWord(s, i, m) /\ IsDotWord(s, m + 1, Len(s))

\* the mutant of hashedFileKey: the hash goes before the last segment only
hashedFileKey_OneSegment(fileKey, hash) ==
  LET at == {i \in 1..Len(fileKey) : IsDotWord(fileKey, i, Len(fileKey))}
  IN  IF at = {} THEN fileKey
      ELSE LET i == Least(at)
           IN  Take(fileKey, i - 1) \o S(<<"-">>) \o hash \o Drop(fileKey, i - 1)

\* fileKey.replace(FILE_EXTENSION_REGEXP, `-${hash}$1`): the first (leftmost)
\* match is replaced; without a match the string is returned as it is
hashedFileKey(fileKey, hash) ==
  LET at == {i \in 1..Len(fileKey) : FILE_EXTENSION_REGEXP(fileKey, i)}
  IN  IF at = {} THEN fileKey
      ELSE LET i == Least(at)
           IN  Take(fileKey, i - 1) \o S(<<"-">>) \o hash \o Drop(fileKey, i - 1)

\* HASHED_FILENAME_REGEXP = /(-[0-9a-f]{32})((\.\w+)+)$/ matches s from position i
HASHED_FILENAME_REGEXP(s, i) ==
  /\ i + 2 <= Len(s)
  /\ IsCh(s[i], "-")
  /\ IsHash(s[i + 1])
  /\ IsDotWords(s, i + 2, Len(s))

\* the realpath of options.path, and path.sep
BasePath == S(<<"/", "r">>)

Sep == S(<<"/">>)

\* filePath.substring(this.path.length + path.sep.length)
relativeFileName(filePath) == Drop(filePath, Len(BasePath) + Len(Sep))

\* path.posix.normalize on a path without '.' and '..' segments: runs of '/' collapse
RECURSIVE Normalize(_)
Normalize(s) ==
  IF Len(s) < 2 THEN s
  ELSE IF IsCh(s[1], "/") /\ IsCh(s[2], "/") THEN Normalize(Tail(s))
  ELSE <<s[1]>> \o Normalize(Tail(s))

\* path.posix.join(a, b): zero-length segments are ignored
PathJoin(a, b) ==
  IF a = <<>> THEN Normalize(b)
  ELSE IF b = <<>> THEN Normalize(a)
  ELSE Normalize(a \o S(<<"/">>) \o b)

\* path.posix.join(this.prefix, fileName)
s3KeyForRelativeFileName(opts, fileName) == PathJoin(opts.prefix, fileName)

\* this.hashedOriginalFileRegexp.test(fileName), false when the option is unset
isHashedFileName(opts, fileName) ==
  IF opts.hashedOriginalFileRegexp
  THEN \E i \in 1..Len(fileName) : HASHED_FILENAME_REGEXP(fileName, i)
  ELSE FALSE

\* hashedFileName.replace(this.hashedOriginalFileRegexp, '$2')
unhashedFileName(opts, hashedFileName) ==
  LET at == {i \in 1..Len(hashedFileName) : HASHED_FILENAME_REGEXP(hashedFileName, i)}
  IN  IF at = {} THEN hashedFileName
      ELSE LET i == Least(at)
           IN  Take(hashedFileName, i - 1) \o Drop(hashedFileName, i + 1)

\* this.gzipHashedFileKeyRegexp.test(originalFileKey); the option is either unset
\* or the pattern /\.css$/
shouldGzipHashedFileKey(opts, originalFileKey) ==
  IF opts.gzipHashedFileKeyRegexp
  THEN EndsWith(originalFileKey, S(<<".", "c", "s", "s">>))
  ELSE FALSE

-----------------------------------------------------------------------------
(* src/lib/file.js *)

CONTENT_TYPE_BINARY == "application/octet-stream"
CONTENT_TYPE_CSS == "text/css"
CONTENT_TYPE_JS == "application/javascript"
CONTENT_TYPE_JSON == "application/json"

\* EXTENSION_GZ_REGEXP = /\.gz$/
isGzipped(filePath) == EndsWith(filePath, S(<<".", "g", "z">>))

\* mime.getType, for the extensions of the mime table the model uses; "" when the
\* table does not know the extension
MimeGetType(filePath) ==
  IF EndsWith(filePath, S(<<".", "p", "n", "g">>)) THEN "image/png"
  ELSE IF EndsWith(filePath, S(<<".", "g", "z">>)) THEN "application/gzip"
  ELSE IF EndsWith(filePath, S(<<".", "m", "a", "p">>)) THEN "application/json"
  ELSE IF EndsWith(filePath, S(<<".", "j", "s">>)) THEN "application/javascript"
  ELSE IF EndsWith(filePath, S(<<".", "c", "s", "s">>)) THEN "text/css"
  ELSE ""

\* the mutant of getContentType: the mime table is asked first
getContentType_MimeFirst(filePath) ==
  IF MimeGetType(filePath) # "" THEN MimeGetType(filePath)
  ELSE CONTENT_TYPE_BINARY

getContentType(filePath) ==
  IF \/ EndsWith(filePath, S(<<".", "j", "s">>))
     \/ EndsWith(filePath, S(<<".", "j", "s", ".", "g", "z">>))
  THEN CONTENT_TYPE_JS
  ELSE IF \/ EndsWith(filePath, S(<<".", "c", "s", "s">>))
          \/ EndsWith(filePath, S(<<".", "c", "s", "s", ".", "g", "z">>))
  THEN CONTENT_TYPE_CSS
  ELSE IF \/ EndsWith(filePath, S(<<".", "j", "s", ".", "m", "a", "p">>))
          \/ EndsWith(filePath, S(<<".", "c", "s", "s", ".", "m", "a", "p">>))
  THEN CONTENT_TYPE_JSON
  ELSE IF MimeGetType(filePath) # "" THEN MimeGetType(filePath)
  ELSE CONTENT_TYPE_BINARY

-----------------------------------------------------------------------------
(* src/index.js: the params of an upload *)

\* the properties of S3UploadHeaders; an object of them is a function that
\* gives "" for a property it does not have
HeaderNames == {"ACL", "Bucket", "CacheControl", "ContentType", "ContentEncoding"}

NoHeaders == [n \in HeaderNames |-> ""]

\* Object.assign(a, b) and {...a, ...b}: the properties of b win
ObjectAssign(a, b) == [n \in HeaderNames |-> IF b[n] # "" THEN b[n] ELSE a[n]]

DEFAULT_ACL == "public-read"

DEFAULT_GZIP_HEADERS ==
  [NoHeaders EXCEPT !["ContentEncoding"] = "gzip", !["CacheControl"] = "max-age=31536000"]

\* config.bucket
ConfigBucket == "bucket"

\* fileHeaders(filePath)
fileHeaders(opts, filePath) ==
  LET defaultHeaders == [NoHeaders EXCEPT !["ACL"] = DEFAULT_ACL, !["Bucket"] = ConfigBucket]
      kindHeaders == [NoHeaders EXCEPT !["ContentType"] = getContentType(filePath)]
      gzipHeaders == IF isGzipped(filePath) THEN opts.gzipHeaders ELSE NoHeaders
  IN  ObjectAssign(ObjectAssign(ObjectAssign(defaultHeaders, opts.headers), kindHeaders),
                   gzipHeaders)

\* the headers uploadHashedFile sends: those of the file, and the gzip headers
\* when the body is compressed on the fly
hashedFileHeaders(opts, filePath) ==
  IF shouldGzipHashedFileKey(opts, s3KeyForRelativeFileName(opts, relativeFileName(filePath)))
  THEN ObjectAssign(fileHeaders(opts, filePath), opts.gzipHeaders)
  ELSE fileHeaders(opts, filePath)

\* the headers uploadDigestFile sends
digestFileHeaders ==
  [NoHeaders EXCEPT !["ACL"] = DEFAULT_ACL, !["Bucket"] = ConfigBucket,
                    !["ContentType"] = CONTENT_TYPE_JSON]

-----------------------------------------------------------------------------
(* src/lib/stream.js and zlib *)

\* zlib.createGzip(DEFAULT_GZIP_OPTIONS) applied to a whole stream
zlibGzip(data) == << [t |-> "gz", ch |-> "9", of |-> <<data>>] >>

\* streamLib.gzipStream applied to a whole stream
gzipStream(data) == << [t |-> "gz", ch |-> "", of |-> <<data>>] >>

\* zlib.createGunzip() applied to a whole stream
zlibGunzip(data) ==
  IF Len(data) = 1 /\ data[1].t = "gz" THEN data[1].of[1] ELSE Undefined

\* streamLib.fileToString: the file's text, gunzipped when the file is gzip-named
fileToString(filePath, data) ==
  IF isGzipped(filePath) THEN zlibGunzip(data) ELSE data

-----------------------------------------------------------------------------
(* The digest object: property lookup and assignment *)

\* names every object inherits from Object.prototype (two of them)
ObjectPrototype ==
  { S(<<"c", "o", "n", "s", "t", "r", "u", "c", "t", "o", "r">>),
    S(<<"v", "a", "l", "u", "e", "O", "f">>) }

\* an inherited function put into a template string: one token that stands for
\* the text 'function name() { [native code] }'
NativeCode(name) == << [t |-> "native", ch |-> "", of |-> <<name>>] >>

\* digest[name] on the object reset() creates with {}: the own property, else
\* the inherited one, else Undefined
DigestGet(d, name) ==
  LET at == {i \in 1..Len(d) : d[i].name = name}
  IN  IF at # {} THEN d[Least(at)].key
      ELSE IF name \in ObjectPrototype THEN NativeCode(name)
      ELSE Undefined

\* digest[name] = key: an existing property keeps its place, a new one is appended
DigestSet(d, name, key) ==
  IF \E i \in 1..Len(d) : d[i].name = name
  THEN [i \in 1..Len(d) |-> IF d[i].name = name THEN [name |-> name, key |-> key] ELSE d[i]]
  ELSE Append(d, [name |-> name, key |-> key])

DigestNames(d) == {d[i].name : i \in 1..Len(d)}

\* JSON.stringify of the properties from the i-th on
RECURSIVE JSONproperties(_, _)
JSONproperties(d, i) ==
  IF i > Len(d) THEN <<>>
  ELSE (IF i > 1 THEN S(<<",">>) ELSE <<>>)
       \o S(<<"\"">>) \o d[i].name \o S(<<"\"", ":", "\"">>) \o d[i].key \o S(<<"\"">>)
       \o JSONproperties(d, i + 1)

\* JSON.stringify(digest): the properties in insertion order
JSONstringify(d) == S(<<"{">>) \o JSONproperties(d, 1) \o S(<<"}">>)

-----------------------------------------------------------------------------
(* src/lib/transform.js *)

UrlOpen == S(<<"u", "r", "l", "(", "/">>)

SourceMappingURL ==
  S(<<"#", " ", "s", "o", "u", "r", "c", "e", "M", "a", "p", "p", "i", "n", "g", "U", "R", "L", "=">>)

CssSourceMapOpen == S(<<"/", "*">>) \o SourceMappingURL

JsSourceMapOpen == S(<<"/", "/">>) \o SourceMappingURL

\* path.dirname of a relative name
Dirname(name) ==
  LET at == {i \in 1..Len(name) : IsCh(name[i], "/")}
  IN  IF at = {} THEN S(<<".">>)
      ELSE Take(name, (CHOOSE i \in at : \A j \in at : j <= i) - 1)

\* path.basename
Basename(key) ==
  LET at == {i \in 1..Len(key) : IsCh(key[i], "/")}
  IN  IF at = {} THEN key
      ELSE Drop(key, CHOOSE i \in at : \A j \in at : j <= i)

\* what a replacer returns in place of a string when it throws: path.basename
\* throws this TypeError for an argument that is not a string
ERR_INVALID_ARG_TYPE == << [t |-> "throw", ch |-> "ERR_INVALID_ARG_TYPE", of |-> <<>>] >>

\* hashedSourceMapFileBaseName: the digest entry of path.join(relativeDirPath,
\* fileBaseName), reduced to its base name; Undefined when there is none; an
\* inherited property is a function, which path.basename does not take
hashedSourceMapFileBaseName(relativeDirPath, d, fileBaseName) ==
  LET matchedFileName ==
        IF relativeDirPath = S(<<".">>) THEN Normalize(fileBaseName)
        ELSE PathJoin(relativeDirPath, fileBaseName)
  IN  IF DigestGet(d, matchedFileName) = Undefined THEN Undefined
      ELSE IF DigestGet(d, matchedFileName) = NativeCode(matchedFileName)
      THEN ERR_INVALID_ARG_TYPE
      ELSE Basename(DigestGet(d, matchedFileName))

\* CSS_URL_REGEXP = /url\(\/([^)]+)\)/g matches s from i up to the returned
\* position of the closing parenthesis; 0 when it does not match at i
CSS_URL_REGEXP(s, i) ==
  IF i + 4 <= Len(s) /\ SubSeq(s, i, i + 4) = UrlOpen
  THEN LET close == {j \in (i + 5)..Len(s) : IsCh(s[j], ")")}
       IN  IF close # {} /\ Least(close) >= i + 6 THEN Least(close) ELSE 0
  ELSE 0

\* fileData.replace(CSS_URL_REGEXP, cssUrlReplacer), from position i on
RECURSIVE cssUrlReplace(_, _, _)
cssUrlReplace(s, i, d) ==
  LET at == {k \in i..Len(s) : CSS_URL_REGEXP(s, k) # 0}
  IN  IF at = {} THEN Drop(s, i - 1)
      ELSE LET k == Least(at)
               j == CSS_URL_REGEXP(s, k)
               absoluteUrl == SubSeq(s, k + 5, j - 1)
               replaced ==
                 IF DigestGet(d, absoluteUrl) # Undefined
                 THEN UrlOpen \o DigestGet(d, absoluteUrl) \o S(<<")">>)
                 ELSE SubSeq(s, k, j)
           IN  SubSeq(s, i, k - 1) \o replaced \o cssUrlReplace(s, j + 1, d)

\* CSS_SOURCEMAP_REGEXP = /\/\*# sourceMappingURL=([^*]+)\*\/$/ matches s from i
CSS_SOURCEMAP_REGEXP(s, i) ==
  LET n == Len(CssSourceMapOpen)
  IN  /\ i + n + 2 <= Len(s)
      /\ SubSeq(s, i, i + n - 1) = CssSourceMapOpen
      /\ EndsWith(s, S(<<"*", "/">>))
      /\ \A j \in (i + n)..(Len(s) - 2) : ~IsCh(s[j], "*")

\* fileData.replace(CSS_SOURCEMAP_REGEXP, cssSourceMapReplacer)
cssSourceMapReplace(s, dir, d) ==
  LET at == {i \in 1..Len(s) : CSS_SOURCEMAP_REGEXP(s, i)}
  IN  IF at = {} THEN s
      ELSE LET i == Least(at)
               fileBaseName == SubSeq(s, i + Len(CssSourceMapOpen), Len(s) - 2)
               sourceMappingUrl == hashedSourceMapFileBaseName(dir, d, fileBaseName)
           IN  IF sourceMappingUrl = ERR_INVALID_ARG_TYPE THEN ERR_INVALID_ARG_TYPE
               ELSE IF sourceMappingUrl # Undefined
               THEN Take(s, i - 1) \o CssSourceMapOpen \o sourceMappingUrl \o S(<<"*", "/">>)
               ELSE s

\* JS_SOURCEMAP_REGEXP = /\/\/# sourceMappingURL=(.+)$/ matches s from i
JS_SOURCEMAP_REGEXP(s, i) ==
  LET n == Len(JsSourceMapOpen)
  IN  /\ i + n <= Len(s)
      /\ SubSeq(s, i, i + n - 1) = JsSourceMapOpen
      /\ \A j \in (i + n)..Len(s) : ~IsCh(s[j], "\n") /\ ~IsCh(s[j], "\r")

\* fileData.replace(JS_SOURCEMAP_REGEXP, jsSourceMapReplacer)
replaceHashedFilenamesInJs(s, dir, d) ==
  LET at == {i \in 1..Len(s) : JS_SOURCEMAP_REGEXP(s, i)}
  IN  IF at = {} THEN s
      ELSE LET i == Least(at)
               fileBaseName == Drop(s, i + Len(JsSourceMapOpen) - 1)
               sourceMappingUrl == hashedSourceMapFileBaseName(dir, d, fileBaseName)
           IN  IF sourceMappingUrl = ERR_INVALID_ARG_TYPE THEN ERR_INVALID_ARG_TYPE
               ELSE IF sourceMappingUrl # Undefined
               THEN Take(s, i - 1) \o JsSourceMapOpen \o sourceMappingUrl
               ELSE s

replaceHashedFilenamesInCss(s, dir, d) ==
  cssSourceMapReplace(cssUrlReplace(s, 1, d), dir, d)

\* transformedDataToStream: re-compressed when the original file was gzip-named
transformedDataToStream(filePath, transformedData) ==
  IF isGzipped(filePath) THEN zlibGzip(transformedData) ELSE transformedData

\* the mutant of recalculateHash: the text is hashed, compressed or not
recalculateHash_OfText(filePath, transformedData) == hashFromString(transformedData)

\* recalculateHash: the hash of the stream transformedDataToStream yields
recalculateHash(filePath, transformedData) ==
  IF ~isGzipped(filePath) THEN hashFromString(transformedData)
  ELSE hashFromString(transformedDataToStream(filePath, transformedData))

\* the mutant of replaceHashedFilenames: every file is passed on as it is
replaceHashedFilenames_Untouched(filePath, relName, d, data) ==
  [transformed |-> FALSE, stream |-> data, hash |-> Undefined, err |-> <<>>]

\* the mutant of replaceHashedFilenames: what is not JavaScript is rewritten
\* as a stylesheet
replaceHashedFilenames_AnyKind(filePath, relName, d, data) ==
  LET dir == Dirname(relName)
      originalData == fileToString(filePath, data)
      transformedData ==
        IF getContentType(filePath) = CONTENT_TYPE_JS
        THEN replaceHashedFilenamesInJs(originalData, dir, d)
        ELSE replaceHashedFilenamesInCss(originalData, dir, d)
  IN  IF transformedData = ERR_INVALID_ARG_TYPE
      THEN [transformed |-> FALSE, stream |-> Undefined, hash |-> Undefined,
            err |-> ERR_INVALID_ARG_TYPE]
      ELSE IF originalData = transformedData
      THEN [transformed |-> FALSE, stream |-> data, hash |-> Undefined, err |-> <<>>]
      ELSE [transformed |-> TRUE,
            stream |-> transformedDataToStream(filePath, transformedData),
            hash |-> recalculateHash(filePath, transformedData),
            err |-> <<>>]

\* replaceHashedFilenames({filePath, relativeFileName, digest}) for a file that
\* holds the bytes data: {transformed, stream, hash}, or, when a replacer
\* throws, the error err the promise is rejected with
replaceHashedFilenames(filePath, relName, d, data) ==
  LET dir == Dirname(relName)
      contentType == getContentType(filePath)
      originalFileResult ==
        [transformed |-> FALSE, stream |-> data, hash |-> Undefined, err |-> <<>>]
      originalData == fileToString(filePath, data)
      transformedData ==
        IF contentType = CONTENT_TYPE_JS THEN replaceHashedFilenamesInJs(originalData, dir, d)
        ELSE replaceHashedFilenamesInCss(originalData, dir, d)
  IN  IF contentType # CONTENT_TYPE_JS /\ contentType # CONTENT_TYPE_CSS
      THEN originalFileResult
      ELSE IF transformedData = ERR_INVALID_ARG_TYPE
      THEN [transformed |-> FALSE, stream |-> Undefined, hash |-> Undefined,
            err |-> ERR_INVALID_ARG_TYPE]
      ELSE IF originalData = transformedData THEN originalFileResult
      ELSE [transformed |-> TRUE,
            stream |-> transformedDataToStream(filePath, transformedData),
            hash |-> recalculateHash(filePath, transformedData),
            err |-> <<>>]

-----------------------------------------------------------------------------
(* Bounds *)

MaxRuns == 2      \* run() calls on the instance

-----------------------------------------------------------------------------
(* Options and local trees *)

DEFAULT_DIGEST_FILE_NAME ==
  S(<<"a", "s", "s", "e", "t", "-", "m", "a", "p", ".", "j", "s", "o", "n">>)

\* constructor defaults: every flag off, no prefix
DefaultOptions ==
  [ prefix |-> <<>>,
    digestFileKey |-> DEFAULT_DIGEST_FILE_NAME,
    noUpload |-> FALSE,
    noUploadDigestFile |-> FALSE,
    noUploadOriginalFiles |-> FALSE,
    noUploadHashedFiles |-> FALSE,
    headers |-> NoHeaders,
    gzipHeaders |-> DEFAULT_GZIP_HEADERS,
    gzipHashedFileKeyRegexp |-> FALSE,
    hashedOriginalFileRegexp |-> FALSE,
    includePseudoUnhashedOriginalFilesInDigest |-> FALSE ]

Assets == S(<<"a", "s", "s", "e", "t", "s">>)

AppCss == S(<<"c", "s", "s", "/", "a", "p", "p", ".", "c", "s", "s">>)

LogoPng == S(<<"i", "m", "g", "/", "l", "o", "g", "o", ".", "p", "n", "g">>)

AppJs == S(<<"a", "p", "p", ".", "j", "s">>)

\* a name an upstream build step has put a content hash into: app-<md5>.js
AppHashedJs == S(<<"a", "p", "p">>) \o S(<<"-">>) \o hashFromString(S(<<"u">>)) \o S(<<".", "j", "s">>)

UrlLogo == UrlOpen \o LogoPng \o S(<<")">>)

RootCss == S(<<"a", "p", "p", ".", "c", "s", "s">>)

\* a stylesheet an upstream build step has put a content hash into: app-<md5>.css
HashedRootCss ==
  S(<<"a", "p", "p">>) \o S(<<"-">>) \o hashFromString(S(<<"u">>)) \o S(<<".", "c", "s", "s">>)

\* the bytes a file of the tree may hold
Contents(name) ==
  IF name = AppCss THEN {UrlLogo}
  ELSE IF name = LogoPng THEN {S(<<"1">>), S(<<"2">>)}
  ELSE IF name = AppJs THEN {S(<<"k">>), S(<<"m">>)}
  ELSE IF name = RootCss THEN {S(<<"a">>), S(<<"b">>)}
  ELSE {S(<<"j">>)}

\* the trees, each in the order the directory listing returns it
StyleTree ==
  << [name |-> AppCss, data |-> UrlLogo], [name |-> LogoPng, data |-> S(<<"1">>)] >>

ChunkTree ==
  << [name |-> AppHashedJs, data |-> S(<<"j">>)], [name |-> AppJs, data |-> S(<<"k">>)] >>

\* a stylesheet listed before the pre-hashed stylesheet of the same name
AliasStyleTree ==
  << [name |-> RootCss, data |-> S(<<"a">>)], [name |-> HashedRootCss, data |-> S(<<"j">>)] >>

\* a file without an extension and a file whose name starts with a dot
PlainTree ==
  << [name |-> S(<<"L", "I", "C", "E", "N", "S", "E">>), data |-> S(<<"1">>)],
     [name |-> S(<<".", "e", "n", "v">>), data |-> S(<<"2">>)] >>

ChunkTreeReversed ==
  << [name |-> AppJs, data |-> S(<<"k">>)], [name |-> AppHashedJs, data |-> S(<<"j">>)] >>

Scenario(o, tree, f) == [options |-> o, tree |-> tree, faulty |-> f]

\* what the model constructs the instance with, over which tree, and whether
\* the disk and the store fail
Scenarios ==
  { Scenario(DefaultOptions, StyleTree, TRUE),
    Scenario([DefaultOptions EXCEPT !.prefix = Assets], StyleTree, FALSE),
    Scenario([DefaultOptions EXCEPT !.prefix = Assets, !.gzipHashedFileKeyRegexp = TRUE],
             StyleTree, FALSE),
    Scenario([DefaultOptions EXCEPT !.noUpload = TRUE], StyleTree, TRUE),
    Scenario([DefaultOptions EXCEPT !.noUploadDigestFile = TRUE], StyleTree, FALSE),
    Scenario([DefaultOptions EXCEPT !.noUploadHashedFiles = TRUE], StyleTree, FALSE),
    Scenario([DefaultOptions EXCEPT !.noUploadOriginalFiles = TRUE,
                                    !.hashedOriginalFileRegexp = TRUE], ChunkTree, FALSE),
    Scenario(DefaultOptions, ChunkTree, FALSE),
    Scenario([DefaultOptions EXCEPT !.hashedOriginalFileRegexp = TRUE], ChunkTree, FALSE),
    Scenario([DefaultOptions EXCEPT !.hashedOriginalFileRegexp = TRUE,
                                    !.includePseudoUnhashedOriginalFilesInDigest = TRUE],
             ChunkTree, FALSE),
    Scenario([DefaultOptions EXCEPT !.hashedOriginalFileRegexp = TRUE,
                                    !.includePseudoUnhashedOriginalFilesInDigest = TRUE],
             ChunkTreeReversed, FALSE) }

\* path.resolve(dirPath, dirent.name) for the entry of relative name name
FullPath(name) == BasePath \o Sep \o name

\* the bytes of the file at filePath; Undefined when there is no such file
FileData(tree, filePath) ==
  LET at == {i \in 1..Len(tree) : FullPath(tree[i].name) = filePath}
  IN  IF at = {} THEN Undefined ELSE tree[Least(at)].data

\* directoryLib.getFileNames(this.path, []): every file, in listing order
getFileNames(tree) == [i \in 1..Len(tree) |-> FullPath(tree[i].name)]

\* hashLib.hashFromFile
hashFromFile(tree, filePath) == hashFromString(FileData(tree, filePath))

-----------------------------------------------------------------------------
(* Object properties keyed by strings (this.filePathToEtagMap, the bucket) *)

Get(m, k) == IF k \in DOMAIN m THEN m[k] ELSE Undefined

\* the mutant of Put: the bytes are appended to what the key already holds
Put_Append(m, k, v) ==
  [x \in (DOMAIN m) \cup {k} |-> IF x # k THEN m[x] ELSE IF k \in DOMAIN m THEN m[k] \o v ELSE v]

Put(m, k, v) == [x \in (DOMAIN m) \cup {k} |-> IF x = k THEN v ELSE m[x]]

-----------------------------------------------------------------------------
(* The remote object store *)

\* the ETag S3 keeps for a stored object: the MD5 of its bytes
ETag(body) == hashFromString(body)

\* client.headObject({Key, IfNoneMatch}) when the store answers
headObject(store, key, etag) ==
  IF key \notin DOMAIN store THEN "NotFound"
  ELSE IF etag # Undefined /\ ETag(store[key]) = etag THEN "NotModified"
  ELSE "Found"

\* the answers headObject may get for a key
HeadAnswers(store, key, etag) ==
  {headObject(store, key, etag)} \cup (IF faulty THEN {"InternalError"} ELSE {})

\* whether client.upload may succeed (TRUE) or fail (FALSE)
UploadAnswers == {TRUE} \cup (IF faulty THEN {FALSE} ELSE {})

\* any failure of the store that is neither NotFound nor NotModified
OtherError(op, key) == << [name |-> "InternalError", op |-> op, key |-> key] >>

-----------------------------------------------------------------------------
(* src/index.js: the sub-tasks of one file *)

\* a sub-task: type is the ContentType of its upload params; st is idle, rewrite (the rewriter is reading), head (headObject in
\* flight), upload (client.upload in flight), done or failed
NoTask(v) ==
  [ st |-> "idle", variant |-> v, run |-> 0, path |-> <<>>, key |-> <<>>,
    etag |-> <<>>, body |-> <<>>, type |-> "", headers |-> NoHeaders, resp |-> "",
    err |-> <<>> ]

\* rejected: the error the pending promise of the Sync / Publish step rejected with
NoTasks ==
  [ original |-> NoTask("original"), hashed |-> NoTask("hashed"),
    manifest |-> NoTask("manifest"), rejected |-> <<>> ]

InFlight(t) == t.st \in {"rewrite", "head", "upload"}

Finished(t) == t.st \in {"idle", "done"}

\* the mutant of reset: the gathered paths are kept
reset_KeepPaths ==
  [ gatheredFilePaths |-> gatheredFilePaths, filePathToEtagMap |-> <<>>, digest |-> <<>> ]

\* the mutant of reset: the digest is kept
reset_KeepDigest == [ gatheredFilePaths |-> <<>>, filePathToEtagMap |-> <<>>, digest |-> digest ]

\* reset(): the three fields get fresh empty values
reset == [ gatheredFilePaths |-> <<>>, filePathToEtagMap |-> <<>>, digest |-> <<>> ]

\* the mutant of shouldUpload: an unexpected error counts as 'absent'
shouldUpload_Swallow(resp) ==
  CASE resp = "NotModified" -> "false"
    [] OTHER -> "true"

\* the value shouldUpload settles with for the answer of headObject: "true",
\* "false", or "throw" when the error is rethrown
shouldUpload(resp) ==
  CASE resp = "Found" -> "true"
    [] resp = "NotModified" -> "false"
    [] resp = "NotFound" -> "true"
    [] OTHER -> "throw"

\* addFileToDigest, after the hash is known: the digest with the file's entries
addFileToDigest(opts, d, filePath, hash) ==
  LET originalFileName == relativeFileName(filePath)
      originalFileKey == s3KeyForRelativeFileName(opts, originalFileName)
  IN  IF isHashedFileName(opts, originalFileName)
      THEN LET withAlias ==
                 IF opts.includePseudoUnhashedOriginalFilesInDigest
                 THEN DigestSet(d, unhashedFileName(opts, originalFileName), originalFileKey)
                 ELSE d
           IN  DigestSet(withAlias, originalFileName, originalFileKey)
      ELSE LET hashed == hashedFileKey(originalFileKey, hash)
           IN  DigestSet(d, originalFileName,
                         IF shouldGzipHashedFileKey(opts, originalFileKey)
                         THEN hashed \o S(<<".", "g", "z">>)
                         ELSE hashed)

\* the mutant of uploadOriginalFile: noUploadOriginalFiles skips pre-hashed files too
uploadOriginalFile_SkipAll(filePath) ==
  LET originalFileName == relativeFileName(filePath)
      originalFileKey == s3KeyForRelativeFileName(options, originalFileName)
      t == [NoTask("original") EXCEPT !.run = runs, !.path = filePath, !.key = originalFileKey,
                                      !.type = fileHeaders(options, filePath)["ContentType"],
                  !.headers = fileHeaders(options, filePath)]
  IN  IF options.noUploadOriginalFiles
      THEN [t EXCEPT !.st = "done"]
      ELSE [t EXCEPT !.etag = Get(filePathToEtagMap, filePath),
                     !.st = IF options.noUpload THEN "done" ELSE "head"]

\* the mutant of uploadOriginalFile: shouldUpload asks the store under noUpload too
uploadOriginalFile_AlwaysHead(filePath) ==
  LET originalFileName == relativeFileName(filePath)
      originalFileKey == s3KeyForRelativeFileName(options, originalFileName)
      t == [NoTask("original") EXCEPT !.run = runs, !.path = filePath, !.key = originalFileKey,
                                      !.type = fileHeaders(options, filePath)["ContentType"],
                  !.headers = fileHeaders(options, filePath)]
  IN  IF options.noUploadOriginalFiles /\ ~isHashedFileName(options, originalFileName)
      THEN [t EXCEPT !.st = "done"]
      ELSE [t EXCEPT !.etag = Get(filePathToEtagMap, filePath), !.st = "head"]

\* the mutant of uploadOriginalFile: the upload is called without shouldUpload
uploadOriginalFile_NoCheck(filePath) ==
  LET originalFileName == relativeFileName(filePath)
      originalFileKey == s3KeyForRelativeFileName(options, originalFileName)
      t == [NoTask("original") EXCEPT !.run = runs, !.path = filePath, !.key = originalFileKey,
                                      !.type = fileHeaders(options, filePath)["ContentType"],
                  !.headers = fileHeaders(options, filePath)]
  IN  IF options.noUploadOriginalFiles /\ ~isHashedFileName(options, originalFileName)
      THEN [t EXCEPT !.st = "done"]
      ELSE [t EXCEPT !.etag = Get(filePathToEtagMap, filePath),
                     !.body = FileData(files, filePath),
                     !.st = IF options.noUpload THEN "done" ELSE "upload"]

\* uploadOriginalFile up to its first wait
uploadOriginalFile(filePath) ==
  LET originalFileName == relativeFileName(filePath)
      originalFileKey == s3KeyForRelativeFileName(options, originalFileName)
      t == [NoTask("original") EXCEPT !.run = runs, !.path = filePath, !.key = originalFileKey,
                                      !.type = fileHeaders(options, filePath)["ContentType"],
                  !.headers = fileHeaders(options, filePath)]
  IN  IF options.noUploadOriginalFiles /\ ~isHashedFileName(options, originalFileName)
      THEN [t EXCEPT !.st = "done"]
      ELSE [t EXCEPT !.etag = Get(filePathToEtagMap, filePath),
                     !.st = IF options.noUpload THEN "done" ELSE "head"]

\* the mutant of uploadHashedFile: the pass-through test is missing
uploadHashedFile_NoPassThrough(filePath) ==
  LET originalFileName == relativeFileName(filePath)
      hashedKey == DigestGet(digest, originalFileName)
      t == [NoTask("hashed") EXCEPT !.run = runs, !.path = filePath, !.key = hashedKey,
                                    !.type = fileHeaders(options, filePath)["ContentType"],
                  !.headers = fileHeaders(options, filePath)]
  IN  IF hashedKey = Undefined THEN [t EXCEPT !.st = "done"]
      ELSE IF options.noUploadHashedFiles THEN [t EXCEPT !.st = "done"]
      ELSE LET transformResult ==
                 replaceHashedFilenames(filePath, originalFileName, digest,
                                        FileData(files, filePath))
           IN  [t EXCEPT !.st = "rewrite",
                         !.body = transformResult.stream,
                         !.etag = transformResult.hash,
                         !.err = transformResult.err]

\* the mutant of uploadHashedFile: the rewriter is given the digest as it was
\* when the file itself had just been added to it
uploadHashedFile_SinglePass(filePath) ==
  LET originalFileName == relativeFileName(filePath)
      originalFileKey == s3KeyForRelativeFileName(options, originalFileName)
      hashedKey == DigestGet(digest, originalFileName)
      t == [NoTask("hashed") EXCEPT !.run = runs, !.path = filePath, !.key = hashedKey,
                                    !.type = fileHeaders(options, filePath)["ContentType"],
                  !.headers = fileHeaders(options, filePath)]
  IN  IF hashedKey = Undefined THEN [t EXCEPT !.st = "done"]
      ELSE IF hashedKey = originalFileKey THEN [t EXCEPT !.st = "done"]
      ELSE IF options.noUploadHashedFiles THEN [t EXCEPT !.st = "done"]
      ELSE LET transformResult ==
                 replaceHashedFilenames(filePath, originalFileName,
                                        SubSeq(digest, 1, cursor + 1),
                                        FileData(files, filePath))
           IN  [t EXCEPT !.st = "rewrite",
                         !.body = transformResult.stream,
                         !.etag = transformResult.hash,
                         !.err = transformResult.err]

\* uploadHashedFile up to its first wait; body and etag hold transformResult
uploadHashedFile(filePath) ==
  LET originalFileName == relativeFileName(filePath)
      originalFileKey == s3KeyForRelativeFileName(options, originalFileName)
      hashedKey == DigestGet(digest, originalFileName)
      t == [NoTask("hashed") EXCEPT !.run = runs, !.path = filePath, !.key = hashedKey,
                                    !.type = fileHeaders(options, filePath)["ContentType"],
                  !.headers = fileHeaders(options, filePath)]
  IN  IF hashedKey = Undefined THEN [t EXCEPT !.st = "done"]
      ELSE IF hashedKey = originalFileKey THEN [t EXCEPT !.st = "done"]
      ELSE IF options.noUploadHashedFiles THEN [t EXCEPT !.st = "done"]
      ELSE LET transformResult ==
                 replaceHashedFilenames(filePath, originalFileName, digest,
                                        FileData(files, filePath))
           IN  [t EXCEPT !.st = "rewrite",
                         !.body = transformResult.stream,
                         !.etag = transformResult.hash,
                         !.err = transformResult.err]

\* uploadHashedFile from the rewriter's answer to the call of headObject
afterRewrite(t) ==
  LET originalFileKey == s3KeyForRelativeFileName(options, relativeFileName(t.path))
      fileStream ==
        IF shouldGzipHashedFileKey(options, originalFileKey) THEN gzipStream(t.body) ELSE t.body
      etag == IF t.etag # Undefined THEN t.etag ELSE Get(filePathToEtagMap, t.path)
  IN  IF t.err # <<>> THEN [t EXCEPT !.st = "failed"]
      ELSE [t EXCEPT !.body = fileStream, !.etag = etag,
                     !.headers = hashedFileHeaders(options, t.path),
                     !.type = hashedFileHeaders(options, t.path)["ContentType"],
                     !.st = IF options.noUpload THEN "done" ELSE "head"]

\* from the answer of headObject to the call of client.upload
afterHead(t, resp) ==
  LET should == shouldUpload(resp)
  IN  IF should = "throw"
      THEN [t EXCEPT !.st = "failed", !.resp = resp, !.err = OtherError("headObject", t.key)]
      ELSE IF should = "false" THEN [t EXCEPT !.st = "done", !.resp = resp]
      ELSE [t EXCEPT !.st = IF options.noUpload THEN "done" ELSE "upload",
                     !.resp = resp,
                     !.body = IF t.variant = "original" THEN FileData(files, t.path) ELSE t.body]

\* the answer of client.upload
afterUpload(t, ok) ==
  IF ok THEN [t EXCEPT !.st = "done"]
  ELSE [t EXCEPT !.st = "failed", !.err = OtherError("upload", t.key)]

\* the mutant of uploadDigestFile: the manifest key gets the prefix like a file key
uploadDigestFile_Prefixed ==
  LET t == [NoTask("manifest") EXCEPT !.run = runs,
                                      !.key = s3KeyForRelativeFileName(options, options.digestFileKey),
                                      !.type = digestFileHeaders["ContentType"],
                  !.headers = digestFileHeaders]
  IN  IF options.noUploadDigestFile THEN [t EXCEPT !.st = "done"]
      ELSE IF options.noUpload THEN [t EXCEPT !.st = "done"]
      ELSE [t EXCEPT !.st = "upload", !.body = JSONstringify(digest)]

\* uploadDigestFile up to its first wait
uploadDigestFile ==
  LET t == [NoTask("manifest") EXCEPT !.run = runs, !.key = options.digestFileKey,
                                      !.type = digestFileHeaders["ContentType"],
                  !.headers = digestFileHeaders]
  IN  IF options.noUploadDigestFile THEN [t EXCEPT !.st = "done"]
      ELSE IF options.noUpload THEN [t EXCEPT !.st = "done"]
      ELSE [t EXCEPT !.st = "upload", !.body = JSONstringify(digest)]

-----------------------------------------------------------------------------
(* History *)

Event(op, t) ==
  [ op |-> op, run |-> t.run, variant |-> t.variant, path |-> t.path, key |-> t.key,
    etag |-> t.etag, body |-> t.body, type |-> t.type, headers |-> t.headers ]

\* the remote calls and rewrites a step issues, taking sub-task t to u
Issued(t, u) ==
  (IF u.st = "rewrite" /\ t.st # "rewrite" THEN {Event("rewrite", u)} ELSE {})
  \cup (IF u.st = "head" /\ t.st # "head" THEN {Event("head", u)} ELSE {})
  \cup (IF u.st = "upload" /\ t.st # "upload" THEN {Event("upload", u)} ELSE {})

Mark(op, r, filePath) ==
  [ op |-> op, run |-> r, variant |-> "", path |-> filePath, key |-> <<>>,
    etag |-> <<>>, body |-> <<>>, type |-> "", headers |-> NoHeaders ]

-----------------------------------------------------------------------------
(* src/index.js: run() *)

\* the instance the constructor leaves, which ends with reset(), and its bucket
Idle(sc) ==
  /\ options = sc.options
  /\ files = sc.tree
  /\ faulty = sc.faulty
  /\ remote = <<>>
  /\ gatheredFilePaths = <<>>
  /\ filePathToEtagMap = <<>>
  /\ digest = <<>>
  /\ pc = "idle"
  /\ cursor = 0
  /\ tasks = NoTasks
  /\ zombies = {}
  /\ outcome = <<>>
  /\ runs = 0
  /\ history = {}
  /\ sent = {}

\* new S3Sync(config, options) over a tree, the bucket empty
Init ==
  /\ \E sc \in Scenarios : Idle(sc)
  /\ arg = <<>>
  /\ ret = <<>>
  /\ peer = <<>>

\* the events of the runs that still have a sub-task in flight
Live(events, inFlight) == {e \in events : \E z \in inFlight : z.run = e.run}

\* the mutant of Settle: the caller is handed the map reset() has emptied
Settle_EmptiedDigest(st, err, zs) ==
  /\ zombies' = zs
  /\ history' = Live(history, zs)
  /\ gatheredFilePaths' = reset.gatheredFilePaths
  /\ filePathToEtagMap' = reset.filePathToEtagMap
  /\ digest' = reset.digest
  /\ outcome' = Append(outcome, [st |-> st, digest |-> reset.digest, err |-> err,
                                   tree |-> files, options |-> options])
  /\ pc' = "settled"
  /\ cursor' = 0
  /\ tasks' = NoTasks

\* the finally block of run(): reset(), then the promise settles; the sub-tasks
\* zs stay in flight
Settle(st, err, zs) ==
  /\ zombies' = zs
  /\ history' = Live(history, zs)
  /\ gatheredFilePaths' = reset.gatheredFilePaths
  /\ filePathToEtagMap' = reset.filePathToEtagMap
  /\ digest' = reset.digest
  /\ outcome' = Append(outcome, [st |-> st, digest |-> digest, err |-> err, tree |-> files,
                                   options |-> options])
  /\ pc' = "settled"
  /\ cursor' = 0
  /\ tasks' = NoTasks

\* run() is called: gatherFiles() asks for the directory listing
RunStart ==
  /\ pc \in {"idle", "settled"}
  /\ runs < MaxRuns
  /\ runs' = runs + 1
  /\ pc' = "gather"
  /\ outcome' = IF outcome = <<>> THEN outcome
                ELSE << [outcome[Len(outcome)] EXCEPT !.err = <<>>] >>
  /\ UNCHANGED << options, files, faulty, remote, gatheredFilePaths, filePathToEtagMap, digest,
                  cursor, tasks, zombies, history, sent, arg, ret, peer >>

\* the listing returns: its paths are pushed onto this.gatheredFilePaths
GatherReturn ==
  /\ pc = "gather"
  /\ gatheredFilePaths' = gatheredFilePaths \o getFileNames(files)
  /\ pc' = IF Len(gatheredFilePaths') = 0 THEN "sync" ELSE "digest"
  /\ cursor' = 0
  /\ history' = history \cup {Mark("listed", runs, <<>>)}
                        \cup {Mark("gathered", runs, gatheredFilePaths'[i]) :
                                i \in 1..Len(gatheredFilePaths')}
  /\ UNCHANGED << options, files, faulty, remote, filePathToEtagMap, digest, tasks, zombies,
                  outcome, runs, sent, arg, ret, peer >>

\* fs.readdir fails: gatherFiles() rejects and so does run()
GatherFail ==
  /\ pc = "gather"
  /\ faulty
  /\ Settle("rejected", OtherError("readdir", BasePath), zombies)
  /\ UNCHANGED << options, files, faulty, remote, runs, sent, arg, ret, peer >>

\* the mutant of DigestLoopDone: the loop stops after the first path
DigestLoopDone_First(i, paths) == i >= 1

\* the Digest loop has gone through every gathered path
DigestLoopDone(i, paths) == i >= Len(paths)

\* one pass of the loop of addFilesToDigest
AddFileToDigest ==
  /\ pc = "digest"
  /\ ~DigestLoopDone(cursor, gatheredFilePaths)
  /\ LET filePath == gatheredFilePaths[cursor + 1]
         hash == hashFromFile(files, filePath)
     IN  /\ filePathToEtagMap' = Put(filePathToEtagMap, filePath, hash)
         /\ digest' = addFileToDigest(options, digest, filePath, hash)
         /\ history' = history \cup {Mark("hashed", runs, filePath)}
  /\ IF DigestLoopDone(cursor + 1, gatheredFilePaths)
     THEN pc' = "sync" /\ cursor' = 0
     ELSE pc' = pc /\ cursor' = cursor + 1
  /\ UNCHANGED << options, files, faulty, remote, gatheredFilePaths, tasks, zombies, outcome,
                  runs, sent, arg, ret, peer >>

\* the read stream of hashFromFile emits 'error': nothing listens on it (the
\* handler is on the hash stream), so the error is thrown out of the event loop
\* and the promise of run() is never settled
HashFail ==
  /\ pc = "digest"
  /\ ~DigestLoopDone(cursor, gatheredFilePaths)
  /\ faulty
  /\ pc' = "crashed"
  /\ UNCHANGED << options, files, faulty, remote, gatheredFilePaths, filePathToEtagMap, digest,
                  cursor, tasks, zombies, outcome, runs, history, sent, arg, ret, peer >>

\* mapSeries takes the next path: both sub-tasks of the file are started
SyncFile ==
  /\ pc = "sync"
  /\ tasks.rejected = <<>>
  /\ Finished(tasks.original) /\ Finished(tasks.hashed)
  /\ cursor < Len(gatheredFilePaths)
  /\ LET filePath == gatheredFilePaths[cursor + 1]
         o == uploadOriginalFile(filePath)
         h == uploadHashedFile(filePath)
     IN  /\ tasks' = [tasks EXCEPT !.original = o, !.hashed = h]
         /\ history' = history \cup Issued(NoTask("original"), o)
                               \cup Issued(NoTask("hashed"), h)
                               \cup (IF Finished(o) /\ Finished(h)
                                     THEN {Mark("synced", runs, filePath)} ELSE {})
  /\ cursor' = cursor + 1
  /\ UNCHANGED << options, files, faulty, remote, gatheredFilePaths, filePathToEtagMap, digest,
                  pc, zombies, outcome, runs, sent, arg, ret, peer >>

\* the hashed-variant uploads among events, as (file, key, bytes)
Sent(events) ==
  {[path |-> e.path, key |-> e.key, body |-> e.body] :
     e \in {x \in events : x.op = "upload" /\ x.variant = "hashed"}}

\* a step of a live sub-task: tasks and history after sub-task v became u
Proceed(v, u) ==
  /\ sent' = sent \cup Sent(Issued(tasks[v], u))
  /\ tasks' = [tasks EXCEPT ![v] = u,
                            !.rejected = IF u.st = "failed" /\ tasks.rejected = <<>>
                                         THEN u.err ELSE tasks.rejected]
  /\ history' = history \cup Issued(tasks[v], u)
                        \cup (IF /\ v # "manifest"
                                 /\ Finished(tasks'.original) /\ Finished(tasks'.hashed)
                              THEN {Mark("synced", u.run, u.path)} ELSE {})

\* the rewriter has answered the hashed sub-task
RewriteDone ==
  /\ pc = "sync"
  /\ tasks.hashed.st = "rewrite"
  /\ Proceed("hashed", afterRewrite(tasks.hashed))
  /\ UNCHANGED << options, files, faulty, remote, gatheredFilePaths, filePathToEtagMap, digest,
                  pc, cursor, zombies, outcome, runs, arg, ret, peer >>

\* the store answers a headObject
HeadResponse ==
  /\ pc = "sync"
  /\ \E v \in {"original", "hashed"} :
       /\ tasks[v].st = "head"
       /\ \E resp \in HeadAnswers(remote, tasks[v].key, tasks[v].etag) :
            Proceed(v, afterHead(tasks[v], resp))
  /\ UNCHANGED << options, files, faulty, remote, gatheredFilePaths, filePathToEtagMap, digest,
                  pc, cursor, zombies, outcome, runs, arg, ret, peer >>

\* the store answers a client.upload: the object is stored, or the call fails
UploadResponse ==
  /\ pc \in {"sync", "manifest"}
  /\ \E v \in {"original", "hashed", "manifest"} :
       /\ tasks[v].st = "upload"
       /\ \E ok \in UploadAnswers :
            /\ Proceed(v, afterUpload(tasks[v], ok))
            /\ remote' = IF ok THEN Put(remote, tasks[v].key, tasks[v].body) ELSE remote
  /\ UNCHANGED << options, files, faulty, gatheredFilePaths, filePathToEtagMap, digest,
                  pc, cursor, zombies, outcome, runs, arg, ret, peer >>

\* the mutant of SyncDone: uploadDigestFile() is called after the last file
\* whatever became of its sub-tasks
SyncDone_IgnoreRejected ==
  /\ pc = "sync"
  /\ cursor = Len(gatheredFilePaths)
  /\ ~InFlight(tasks.original) /\ ~InFlight(tasks.hashed)
  /\ pc' = "manifest"
  /\ tasks' = [tasks EXCEPT !.manifest = uploadDigestFile]
  /\ history' = history \cup Issued(NoTask("manifest"), uploadDigestFile)
  /\ UNCHANGED << options, files, faulty, remote, gatheredFilePaths, filePathToEtagMap, digest,
                  cursor, zombies, outcome, runs, sent, arg, ret, peer >>

\* mapSeries is through: syncFiles() resolves and uploadDigestFile() is called
SyncDone ==
  /\ pc = "sync"
  /\ tasks.rejected = <<>>
  /\ Finished(tasks.original) /\ Finished(tasks.hashed)
  /\ cursor = Len(gatheredFilePaths)
  /\ pc' = "manifest"
  /\ tasks' = [tasks EXCEPT !.manifest = uploadDigestFile]
  /\ history' = history \cup Issued(NoTask("manifest"), uploadDigestFile)
  /\ UNCHANGED << options, files, faulty, remote, gatheredFilePaths, filePathToEtagMap, digest,
                  cursor, zombies, outcome, runs, sent, arg, ret, peer >>

\* uploadDigestFile() has resolved: run() returns this.digest, finally reset()
RunResolve ==
  /\ pc = "manifest"
  /\ tasks.manifest.st = "done"
  /\ Settle("resolved", <<>>, zombies)
  /\ UNCHANGED << options, files, faulty, remote, runs, sent, arg, ret, peer >>

\* a sub-task has failed: Bluebird.props, mapSeries and run() reject with the
\* first error, finally reset(); the sibling sub-task stays in flight
RunReject ==
  /\ pc \in {"sync", "manifest"}
  /\ tasks.rejected # <<>>
  /\ Settle("rejected", tasks.rejected,
            zombies \cup {t \in {tasks.original, tasks.hashed} : InFlight(t)})
  /\ UNCHANGED << options, files, faulty, remote, runs, sent, arg, ret, peer >>

\* a sub-task that outlived its run() goes on
ZombieStep ==
  /\ \E z \in zombies :
       \E u \in (IF z.st = "rewrite" THEN {afterRewrite(z)}
                 ELSE IF z.st = "head"
                 THEN {afterHead(z, resp) : resp \in HeadAnswers(remote, z.key, z.etag)}
                 ELSE {afterUpload(z, ok) : ok \in UploadAnswers}) :
         /\ zombies' = (zombies \ {z}) \cup (IF InFlight(u) THEN {u} ELSE {})
         /\ history' = Live(history \cup Issued(z, u),
                             zombies' \cup (IF pc \in {"gather", "digest", "sync", "manifest"}
                                            THEN {[run |-> runs]} ELSE {}))
         /\ sent' = sent \cup Sent(Issued(z, u))
         /\ remote' = IF z.st = "upload" /\ u.st = "done"
                      THEN Put(remote, z.key, z.body) ELSE remote
  /\ UNCHANGED << options, files, faulty, gatheredFilePaths, filePathToEtagMap, digest, pc, cursor,
                  tasks, outcome, runs, arg, ret, peer >>

\* between runs a file of the tree gets other bytes
EditFile ==
  /\ pc = "settled"
  /\ zombies = {}
  /\ runs < MaxRuns
  /\ \E i \in 1..Len(files) : \E data \in Contents(files[i].name) \ {files[i].data} :
       files' = [files EXCEPT ![i].data = data]
  /\ UNCHANGED << options, faulty, remote, gatheredFilePaths, filePathToEtagMap, digest, pc, cursor,
                  tasks, zombies, outcome, runs, history, sent, arg, ret, peer >>

Next ==
  \/ RunStart
  \/ GatherReturn
  \/ GatherFail
  \/ AddFileToDigest
  \/ HashFail
  \/ SyncFile
  \/ RewriteDone
  \/ HeadResponse
  \/ UploadResponse
  \/ SyncDone
  \/ RunResolve
  \/ RunReject
  \/ ZombieStep
  \/ EditFile

Spec == Init /\ [][Next]_vars

\* the scripts without a sourcemap comment, on a disk and a store that may fail
InitFaultyScripts ==
  /\ Idle(Scenario(DefaultOptions, ChunkTree, TRUE))
  /\ arg = <<>>
  /\ ret = <<>>
  /\ peer = <<>>

SpecFaultyScripts == InitFaultyScripts /\ [][Next]_vars

\* hashed variants compressed on the fly, pre-hashed names and their aliases,
\* on a disk and a store that may fail
InitGzipAlias ==
  /\ Idle(Scenario([DefaultOptions EXCEPT !.gzipHashedFileKeyRegexp = TRUE,
                                          !.hashedOriginalFileRegexp = TRUE,
                                          !.includePseudoUnhashedOriginalFilesInDigest = TRUE],
                   AliasStyleTree, TRUE))
  /\ arg = <<>>
  /\ ret = <<>>
  /\ peer = <<>>

SpecGzipAlias == InitGzipAlias /\ [][Next]_vars

\* files named without an extension, on a disk and a store that may fail
InitPlainNames ==
  /\ Idle(Scenario(DefaultOptions, PlainTree, TRUE))
  /\ arg = <<>>
  /\ ret = <<>>
  /\ peer = <<>>

SpecPlainNames == InitPlainNames /\ [][Next]_vars

\* between runs a file of the tree is deleted
DeleteFile ==
  /\ pc = "settled"
  /\ zombies = {}
  /\ runs < MaxRuns
  /\ Len(files) >= 2
  /\ \E i \in 1..Len(files) :
       files' = SubSeq(files, 1, i - 1) \o SubSeq(files, i + 1, Len(files))
  /\ UNCHANGED << options, faulty, remote, gatheredFilePaths, filePathToEtagMap, digest, pc, cursor,
                  tasks, zombies, outcome, runs, history, sent, arg, ret, peer >>

\* an instance used again and again over a tree that changes and shrinks
\* between its runs
InitReuse ==
  /\ \E sc \in {x \in Scenarios : x.faulty \/ x.options.hashedOriginalFileRegexp} : Idle(sc)
  /\ arg = <<>>
  /\ ret = <<>>
  /\ peer = <<>>

SpecReuse == InitReuse /\ [][Next \/ DeleteFile]_vars

\* a new S3Sync over the same directory and bucket, options.noUpload the other
\* way round
Reconstruct ==
  /\ pc \in {"idle", "settled"}
  /\ zombies = {}
  /\ options' = [options EXCEPT !.noUpload = ~options.noUpload]
  /\ gatheredFilePaths' = reset.gatheredFilePaths
  /\ filePathToEtagMap' = reset.filePathToEtagMap
  /\ digest' = reset.digest
  /\ pc' = "idle"
  /\ UNCHANGED << files, remote, faulty, cursor, tasks, zombies, outcome, runs, history, sent,
                  arg, ret, peer >>

\* runs of instances that differ in options.noUpload only
SpecDryRun == Init /\ [][Next \/ Reconstruct]_vars

-----------------------------------------------------------------------------
(* Two processes, each with its own S3Sync, on the same tree and bucket *)

\* the state of the instance of the process that is stepping
Instance ==
  [ gatheredFilePaths |-> gatheredFilePaths, filePathToEtagMap |-> filePathToEtagMap,
    digest |-> digest, pc |-> pc, cursor |-> cursor, tasks |-> tasks, zombies |-> zombies,
    outcome |-> outcome, runs |-> runs, history |-> history, sent |-> sent ]

\* the instance the constructor of the other process leaves
NewInstance ==
  [ gatheredFilePaths |-> <<>>, filePathToEtagMap |-> <<>>, digest |-> <<>>, pc |-> "idle",
    cursor |-> 0, tasks |-> NoTasks, zombies |-> {}, outcome |-> <<>>, runs |-> 0,
    history |-> {}, sent |-> {} ]

\* the other process steps next: between any two steps of one process the
\* other may take any number of its own
Switch ==
  /\ peer # <<>>
  /\ peer # Instance
  /\ peer' = Instance
  /\ gatheredFilePaths' = peer.gatheredFilePaths
  /\ filePathToEtagMap' = peer.filePathToEtagMap
  /\ digest' = peer.digest
  /\ pc' = peer.pc
  /\ cursor' = peer.cursor
  /\ tasks' = peer.tasks
  /\ zombies' = peer.zombies
  /\ outcome' = peer.outcome
  /\ runs' = peer.runs
  /\ history' = peer.history
  /\ sent' = peer.sent
  /\ UNCHANGED << options, files, remote, faulty, arg, ret >>

\* each process calls run() once
ProcessStart ==
  /\ runs = 0
  /\ RunStart

\* a tree where the hashed key of app.js is the name of another file
CollideTree ==
  << [name |-> hashedFileKey(AppJs, hashFromString(S(<<"k">>))), data |-> S(<<"j">>)],
     [name |-> AppJs, data |-> S(<<"k">>)] >>

CollideTreeReversed ==
  << [name |-> AppJs, data |-> S(<<"k">>)],
     [name |-> hashedFileKey(AppJs, hashFromString(S(<<"k">>))), data |-> S(<<"j">>)] >>

ConcurrentScenarios ==
  { Scenario(DefaultOptions, StyleTree, TRUE),
    Scenario(DefaultOptions, CollideTree, FALSE),
    Scenario(DefaultOptions, CollideTreeReversed, FALSE),
    Scenario([DefaultOptions EXCEPT !.prefix = Assets], StyleTree, FALSE),
    Scenario([DefaultOptions EXCEPT !.hashedOriginalFileRegexp = TRUE,
                                    !.includePseudoUnhashedOriginalFilesInDigest = TRUE],
             ChunkTreeReversed, FALSE) }

InitConcurrent ==
  /\ \E sc \in ConcurrentScenarios : Idle(sc)
  /\ arg = <<>>
  /\ ret = <<>>
  /\ peer = NewInstance

NextConcurrent ==
  \/ ProcessStart
  \/ GatherReturn
  \/ GatherFail
  \/ AddFileToDigest
  \/ HashFail
  \/ SyncFile
  \/ RewriteDone
  \/ HeadResponse
  \/ UploadResponse
  \/ SyncDone
  \/ RunResolve
  \/ RunReject
  \/ ZombieStep
  \/ Switch

SpecConcurrent == InitConcurrent /\ [][NextConcurrent]_vars

-----------------------------------------------------------------------------
(* Two calls of run() in flight on one S3Sync *)

\* what belongs to the call of run() that is stepping: where it is, its
\* sub-tasks, and, in arg, the array its loop goes through once that array is no
\* longer this.gatheredFilePaths
Call ==
  [ pc |-> pc, cursor |-> cursor, tasks |-> tasks, zombies |-> zombies, outcome |-> outcome,
    runs |-> runs, history |-> history, sent |-> sent, arg |-> arg ]

\* a call of run() that has not begun
NewCall ==
  [ pc |-> "idle", cursor |-> 0, tasks |-> NoTasks, zombies |-> {}, outcome |-> <<>>,
    runs |-> 0, history |-> {}, sent |-> {}, arg |-> <<>> ]

\* the array the for...of loop of addFilesToDigest or mapSeries goes through
IteratedPaths == IF arg = <<>> THEN gatheredFilePaths ELSE arg[1]

\* the other call steps next; the fields of the instance stay as they are
SwitchCall ==
  /\ peer # <<>>
  /\ peer # Call
  /\ peer' = Call
  /\ pc' = peer.pc
  /\ cursor' = peer.cursor
  /\ tasks' = peer.tasks
  /\ zombies' = peer.zombies
  /\ outcome' = peer.outcome
  /\ runs' = peer.runs
  /\ history' = peer.history
  /\ sent' = peer.sent
  /\ arg' = peer.arg
  /\ UNCHANGED << options, files, remote, faulty, gatheredFilePaths, filePathToEtagMap, digest,
                  ret >>

\* one pass of the loop of addFilesToDigest: the hash is there, the entries are
\* written to the fields as they are now, and the iterator is asked for the next
\* path; after the last one syncFiles() hands this.gatheredFilePaths to mapSeries
OverlapAddFileToDigest ==
  /\ pc = "digest"
  /\ cursor < Len(IteratedPaths)
  /\ LET filePath == IteratedPaths[cursor + 1]
         hash == hashFromFile(files, filePath)
     IN  /\ filePathToEtagMap' = Put(filePathToEtagMap, filePath, hash)
         /\ digest' = addFileToDigest(options, digest, filePath, hash)
         /\ history' = history \cup {Mark("hashed", runs, filePath)}
  /\ IF DigestLoopDone(cursor + 1, IteratedPaths)
     THEN pc' = "sync" /\ cursor' = 0 /\ arg' = <<gatheredFilePaths>>
     ELSE pc' = pc /\ cursor' = cursor + 1 /\ arg' = arg
  /\ UNCHANGED << options, files, faulty, remote, gatheredFilePaths, tasks, zombies, outcome,
                  runs, sent, ret, peer >>

\* mapSeries takes the next path of the array it was given
OverlapSyncFile ==
  /\ pc = "sync"
  /\ tasks.rejected = <<>>
  /\ Finished(tasks.original) /\ Finished(tasks.hashed)
  /\ cursor < Len(IteratedPaths)
  /\ LET filePath == IteratedPaths[cursor + 1]
         o == uploadOriginalFile(filePath)
         h == uploadHashedFile(filePath)
     IN  /\ tasks' = [tasks EXCEPT !.original = o, !.hashed = h]
         /\ history' = history \cup Issued(NoTask("original"), o)
                               \cup Issued(NoTask("hashed"), h)
                               \cup {Mark("started", runs, filePath)}
  /\ cursor' = cursor + 1
  /\ UNCHANGED << options, files, faulty, remote, gatheredFilePaths, filePathToEtagMap, digest,
                  pc, zombies, outcome, runs, sent, arg, ret, peer >>

\* mapSeries is through its array: uploadDigestFile() is called
OverlapSyncDone ==
  /\ pc = "sync"
  /\ tasks.rejected = <<>>
  /\ Finished(tasks.original) /\ Finished(tasks.hashed)
  /\ cursor = Len(IteratedPaths)
  /\ pc' = "manifest"
  /\ tasks' = [tasks EXCEPT !.manifest = uploadDigestFile]
  /\ history' = history \cup Issued(NoTask("manifest"), uploadDigestFile)
  /\ UNCHANGED << options, files, faulty, remote, gatheredFilePaths, filePathToEtagMap, digest,
                  cursor, zombies, outcome, runs, sent, arg, ret, peer >>

\* reset() of the call that settles gives the instance a new array: the loop of
\* the other call keeps the array it began with
KeepsArray(c) ==
  IF c.pc = "digest" /\ c.arg = <<>> THEN [c EXCEPT !.arg = <<gatheredFilePaths>>] ELSE c

\* run() returns this.digest, finally reset()
OverlapResolve ==
  /\ pc = "manifest"
  /\ tasks.manifest.st = "done"
  /\ Settle("resolved", <<>>, zombies)
  /\ peer' = KeepsArray(peer)
  /\ UNCHANGED << options, files, faulty, remote, runs, sent, arg, ret >>

InitOverlap ==
  /\ Idle(Scenario(DefaultOptions, StyleTree, FALSE))
  /\ arg = <<>>
  /\ ret = <<>>
  /\ peer = NewCall

NextOverlap ==
  \/ ProcessStart
  \/ GatherReturn
  \/ OverlapAddFileToDigest
  \/ OverlapSyncFile
  \/ RewriteDone
  \/ HeadResponse
  \/ UploadResponse
  \/ OverlapSyncDone
  \/ OverlapResolve
  \/ SwitchCall

SpecOverlap == InitOverlap /\ [][NextOverlap]_vars

-----------------------------------------------------------------------------
(* hashedFileKey on its own *)

MaxKeyLen == 5

KeyChars == {"a", ".", "/", "-"}

RECURSIVE KeysOfLen(_)
KeysOfLen(n) ==
  IF n = 0 THEN {<<>>}
  ELSE {Append(k, Ch(c)) : k \in KeysOfLen(n - 1), c \in KeyChars}

AppMinJs == S(<<"a", "p", "p", ".", "m", "i", "n", ".", "j", "s">>)
StyleCss == S(<<"s", "t", "y", "l", "e", ".", "c", "s", "s">>)

Keys ==
  UNION {KeysOfLen(n) : n \in 0..MaxKeyLen}
    \cup {AppMinJs, StyleCss, AppCss, LogoPng, AppHashedJs, PathJoin(Assets, AppCss)}

Hashes == {hashFromString(S(<<"j">>)), hashFromString(S(<<"k">>))}

InitHashedFileKey ==
  /\ Idle(Scenario(DefaultOptions, StyleTree, FALSE))
  /\ arg \in [key : Keys, hash : Hashes]
  /\ ret = <<>>
  /\ peer = <<>>

CallHashedFileKey ==
  /\ ret = <<>>
  /\ ret' = << hashedFileKey(arg.key, arg.hash) >>
  /\ UNCHANGED << options, files, remote, faulty, gatheredFilePaths, filePathToEtagMap, digest,
                  pc, cursor, tasks, zombies, outcome, runs, history, sent, arg, peer >>

SpecHashedFileKey == InitHashedFileKey /\ [][CallHashedFileKey]_vars

-----------------------------------------------------------------------------
(* replaceHashedFilenamesInCss on its own *)

MaxRefs == 2

H1 == hashFromString(S(<<"1">>))

H2 == hashFromString(S(<<"2">>))

ACss == S(<<"c", "s", "s", "/", "a", ".", "c", "s", "s">>)

BPng == S(<<"i", "m", "g", "/", "b", ".", "p", "n", "g">>)

\* {"css/a.css": "assets/css/a-H1.css", "img/b.png": "assets/img/b-H2.png"}
ExampleDigest ==
  << [name |-> ACss, key |-> S(<<"a", "s", "s", "e", "t", "s", "/", "c", "s", "s", "/", "a", "-">>) \o H1 \o S(<<".", "c", "s", "s">>)],
     [name |-> BPng, key |-> S(<<"a", "s", "s", "e", "t", "s", "/", "i", "m", "g", "/", "b", "-">>) \o H2 \o S(<<".", "p", "n", "g">>)] >>

\* pieces of a stylesheet: references to digest keys, to other names, external,
\* quoted, relative and broken ones, and plain text
Pieces ==
  { UrlOpen \o BPng \o S(<<")">>),
    UrlOpen \o ACss \o S(<<")">>),
    S(<<"u", "r", "l", "(", "/", "i", "m", "g", "/", "c", ".", "p", "n", "g", ")">>),
    S(<<"u", "r", "l", "(", "i", "m", "g", "/", "b", ".", "p", "n", "g", ")">>),
    S(<<"u", "r", "l", "(", "'", "/", "i", "m", "g", "/", "b", ".", "p", "n", "g", "'", ")">>),
    S(<<"u", "r", "l", "(", "/", "/", "c", "d", "n", ".", "e", "x", "a", "m", "p", "l", "e", "/", "b", ".", "p", "n", "g", ")">>),
    S(<<"u", "r", "l", "(", "/", "i", "m", "g", "/", "b", ".", "p", "n", "g", "?", "v", "=", "1", ")">>),
    S(<<"u", "r", "l", "(", "/", ")">>),
    S(<<"u", "r", "l", "(", "/", "c", "o", "n", "s", "t", "r", "u", "c", "t", "o", "r", ")">>),
    S(<<"a", "{", "}">>) }

RECURSIVE PieceLists(_)
PieceLists(n) ==
  IF n = 0 THEN {<<>>}
  ELSE PieceLists(n - 1) \cup {Append(l, x) : l \in PieceLists(n - 1), x \in Pieces}

RECURSIVE Flatten(_)
Flatten(l) == IF l = <<>> THEN <<>> ELSE Head(l) \o Flatten(Tail(l))

InitCssUrls ==
  /\ Idle(Scenario(DefaultOptions, StyleTree, FALSE))
  /\ arg \in [refs : PieceLists(MaxRefs), digest : {ExampleDigest}]
  /\ ret = <<>>
  /\ peer = <<>>

\* the rewriter is applied to css/a.css holding the pieces one after the other
CallReplaceHashedFilenamesInCss ==
  /\ ret = <<>>
  /\ ret' = << replaceHashedFilenamesInCss(Flatten(arg.refs), Dirname(ACss), arg.digest) >>
  /\ UNCHANGED << options, files, remote, faulty, gatheredFilePaths, filePathToEtagMap, digest,
                  pc, cursor, tasks, zombies, outcome, runs, history, sent, arg, peer >>

SpecCssUrls == InitCssUrls /\ [][CallReplaceHashedFilenamesInCss]_vars

-----------------------------------------------------------------------------
(* getContentType and isGzipped on their own *)

MaxExts == 3

ExtJs == S(<<".", "j", "s">>)
ExtCss == S(<<".", "c", "s", "s">>)
ExtMap == S(<<".", "m", "a", "p">>)
ExtGz == S(<<".", "g", "z">>)
ExtPng == S(<<".", "p", "n", "g">>)
ExtUnknown == S(<<".", "z", "z">>)

Exts == {ExtJs, ExtCss, ExtMap, ExtGz, ExtPng, ExtUnknown}

RECURSIVE ExtLists(_)
ExtLists(n) ==
  IF n = 0 THEN {<<>>}
  ELSE ExtLists(n - 1) \cup {Append(l, x) : l \in ExtLists(n - 1), x \in Exts}

\* the path of a file 'app' with the extensions exts
PathWith(exts) == BasePath \o Sep \o S(<<"a", "p", "p">>) \o Flatten(exts)

InitClassify ==
  /\ Idle(Scenario(DefaultOptions, StyleTree, FALSE))
  /\ arg \in [exts : ExtLists(MaxExts)]
  /\ ret = <<>>
  /\ peer = <<>>

CallGetContentType ==
  /\ ret = <<>>
  /\ ret' = << [ type |-> getContentType(PathWith(arg.exts)),
                 gzipped |-> isGzipped(PathWith(arg.exts)) ] >>
  /\ UNCHANGED << options, files, remote, faulty, gatheredFilePaths, filePathToEtagMap, digest,
                  pc, cursor, tasks, zombies, outcome, runs, history, sent, arg, peer >>

SpecClassify == InitClassify /\ [][CallGetContentType]_vars

-----------------------------------------------------------------------------
(* replaceHashedFilenames on its own *)

MaxParts == 2

H3 == hashFromString(S(<<"3">>))

JsAppJs == S(<<"j", "s", "/">>) \o AppJs

DotMap == S(<<".", "m", "a", "p">>)

DotGz == S(<<".", "g", "z">>)

ACssMap == S(<<"a", ".", "c", "s", "s">>) \o DotMap

AppJsMap == AppJs \o DotMap

\* files of every kind: stylesheets and scripts, plain and gzip-named, at the
\* root and in a directory, a sourcemap, an image
RewriteNames ==
  { ACss, ACss \o DotGz, AppJs, AppJs \o DotGz, JsAppJs, ACss \o DotMap, BPng }

\* a digest with the image, and the sourcemaps of css/a.css, app.js and js/app.js
RewriteDigest ==
  << [name |-> BPng, key |-> Assets \o S(<<"/", "i", "m", "g", "/", "b", "-">>) \o H2
                                    \o S(<<".", "p", "n", "g">>)],
     [name |-> ACss \o DotMap, key |-> Assets \o S(<<"/", "c", "s", "s", "/", "a", "-">>) \o H1
                                              \o S(<<".", "c", "s", "s">>) \o DotMap],
     [name |-> AppJsMap, key |-> Assets \o S(<<"/", "a", "p", "p", "-">>) \o H3
                                        \o S(<<".", "j", "s">>) \o DotMap],
     [name |-> JsAppJs \o DotMap, key |-> Assets \o S(<<"/", "j", "s", "/", "a", "p", "p", "-">>)
                                                 \o H3 \o S(<<".", "j", "s">>) \o DotMap] >>

\* parts of a file's text: plain text, a line end, a reference, sourcemap
\* comments of a stylesheet with and without the space before the end of the
\* comment, sourcemap comments of a script
Parts ==
  { S(<<"a", "{", "}">>),
    S(<<"\n">>),
    UrlOpen \o BPng \o S(<<")">>),
    CssSourceMapOpen \o ACssMap \o S(<<" ", "*", "/">>),
    CssSourceMapOpen \o ACssMap \o S(<<"*", "/">>),
    JsSourceMapOpen \o AppJsMap,
    JsSourceMapOpen \o S(<<"c", "o", "n", "s", "t", "r", "u", "c", "t", "o", "r">>) }

RECURSIVE PartLists(_)
PartLists(n) ==
  IF n = 0 THEN {<<>>}
  ELSE PartLists(n - 1) \cup {Append(l, x) : l \in PartLists(n - 1), x \in Parts}

\* the bytes of the file of arg: the parts one after the other, compressed when
\* the file is gzip-named
FileBytes(a) ==
  IF isGzipped(FullPath(a.name)) THEN zlibGzip(Flatten(a.parts)) ELSE Flatten(a.parts)

InitRewrite ==
  /\ Idle(Scenario(DefaultOptions, StyleTree, FALSE))
  /\ arg \in [name : RewriteNames, parts : PartLists(MaxParts), digest : {<<>>, RewriteDigest}]
  /\ ret = <<>>
  /\ peer = <<>>

CallReplaceHashedFilenames ==
  /\ ret = <<>>
  /\ ret' = << replaceHashedFilenames(FullPath(arg.name), arg.name, arg.digest, FileBytes(arg)) >>
  /\ UNCHANGED << options, files, remote, faulty, gatheredFilePaths, filePathToEtagMap, digest,
                  pc, cursor, tasks, zombies, outcome, runs, history, sent, arg, peer >>

SpecRewrite == InitRewrite /\ [][CallReplaceHashedFilenames]_vars

-----------------------------------------------------------------------------
(* fileHeaders and the headers of the hashed variant on their own *)

\* what a caller may pass as options.headers
CallerHeaders ==
  { NoHeaders,
    [NoHeaders EXCEPT !["ACL"] = "private"],
    [NoHeaders EXCEPT !["Bucket"] = "other", !["CacheControl"] = "no-cache"],
    [NoHeaders EXCEPT !["ContentType"] = "text/plain"] }

\* and as options.gzipHeaders
CallerGzipHeaders ==
  { DEFAULT_GZIP_HEADERS,
    NoHeaders,
    [NoHeaders EXCEPT !["ContentEncoding"] = "gzip", !["ContentType"] = "application/gzip"] }

HeaderFileNames == {AppJs, AppJs \o DotGz, ACss, ACss \o DotGz, BPng}

InitFileHeaders ==
  /\ \E h \in CallerHeaders, g \in CallerGzipHeaders, z \in BOOLEAN :
       Idle(Scenario([DefaultOptions EXCEPT !.headers = h, !.gzipHeaders = g,
                                            !.gzipHashedFileKeyRegexp = z],
                     StyleTree, FALSE))
  /\ arg \in [name : HeaderFileNames]
  /\ ret = <<>>
  /\ peer = <<>>

CallFileHeaders ==
  /\ ret = <<>>
  /\ ret' = << [ original |-> fileHeaders(options, FullPath(arg.name)),
                 hashed |-> hashedFileHeaders(options, FullPath(arg.name)) ] >>
  /\ UNCHANGED << options, files, remote, faulty, gatheredFilePaths, filePathToEtagMap, digest,
                  pc, cursor, tasks, zombies, outcome, runs, history, sent, arg, peer >>

SpecFileHeaders == InitFileHeaders /\ [][CallFileHeaders]_vars

-----------------------------------------------------------------------------
(* getFileNames on its own: a directory with sub-directories, and filters *)

MaxDepth == 3
MaxEntries == 4
MaxFilters == 2

\* the names an entry of a directory may have
DirentNames == << S(<<"a">>), S(<<"b">>), S(<<"c">>) >>

\* a RegExp made of literal text, with or without ^ and $; a string filter is
\* compiled by String.prototype.match to such a RegExp without anchors
Filters ==
  << [source |-> S(<<"a">>), start |-> FALSE, end |-> FALSE],
     [source |-> S(<<"a">>), start |-> TRUE, end |-> TRUE],
     [source |-> S(<<"b", "/">>), start |-> TRUE, end |-> FALSE],
     [source |-> S(<<"b">>), start |-> FALSE, end |-> TRUE] >>

RECURSIVE FilterLists(_, _)
\* the lists of up to n different filters, taken from the i-th filter on
FilterLists(n, i) ==
  IF n = 0 \/ i > Len(Filters) THEN {<<>>}
  ELSE FilterLists(n, i + 1) \cup {<<Filters[i]>> \o l : l \in FilterLists(n - 1, i + 1)}

\* the number of path segments of fullPath below the base path
Depth(fullPath) == Cardinality({i \in (Len(BasePath) + 1)..Len(fullPath) : IsCh(fullPath[i], "/")})

\* !!string.match(regexp)
RegExpMatch(string, regexp) ==
  \E i \in 1..(Len(string) + 1) : \E j \in (i - 1)..Len(string) :
    /\ SubSeq(string, i, j) = regexp.source
    /\ regexp.start => i = 1
    /\ regexp.end => j = Len(string)

\* path.relative(from, to) for a path to below from
PathRelative(from, to) == Drop(to, Len(from) + Len(Sep))

\* path.resolve(dirPath, name) for an absolute dirPath
PathResolve(dirPath, name) == dirPath \o Sep \o name

RECURSIVE readdir(_, _, _)
\* fs.readdir(dirPath, { withFileTypes: true }): the entries of dirPath from the i-th name on
readdir(disk, dirPath, i) ==
  IF i > Len(DirentNames) THEN <<>>
  ELSE LET here == {e \in disk : e.path = PathResolve(dirPath, DirentNames[i])}
       IN  (IF here = {} THEN <<>>
            ELSE << [name |-> DirentNames[i],
                     isDirectory |-> (CHOOSE e \in here : TRUE).isDirectory] >>)
           \o readdir(disk, dirPath, i + 1)

\* isFiltered of getFileNames
isFiltered(filters, fullPath) ==
  LET relativePath == PathRelative(BasePath, fullPath)
  IN  \E f \in 1..Len(filters) : RegExpMatch(relativePath, filters[f])

RECURSIVE recurseDirectory_NoPrune(_, _)
recurseDirectory_NoPrune(a, dirPath) ==
  LET dirents == readdir(a.disk, dirPath, 1)
      filePaths ==
        [i \in 1..Len(dirents) |->
           LET fullPath == PathResolve(dirPath, dirents[i].name)
           IN  IF dirents[i].isDirectory THEN recurseDirectory_NoPrune(a, fullPath)
               ELSE IF isFiltered(a.filters, fullPath) THEN <<>>
               ELSE <<fullPath>>]
  IN  Flatten(filePaths)

RECURSIVE recurseDirectory(_, _)
\* recurseDirectory of getFileNames, on the disk and with the filters of a
recurseDirectory(a, dirPath) ==
  LET dirents == readdir(a.disk, dirPath, 1)
      filePaths ==
        [i \in 1..Len(dirents) |->
           LET fullPath == PathResolve(dirPath, dirents[i].name)
           IN  IF isFiltered(a.filters, fullPath) THEN <<>>
               ELSE IF dirents[i].isDirectory THEN recurseDirectory(a, fullPath)
               ELSE <<fullPath>>]
  IN  Flatten(filePaths)

InitGetFileNames ==
  /\ Idle(Scenario(DefaultOptions, StyleTree, FALSE))
  /\ arg \in [disk : {{}}, filters : FilterLists(MaxFilters, 1)]
  /\ ret = <<>>
  /\ peer = <<>>

\* before the call a file or a directory is created under the base path
MakeEntry ==
  /\ ret = <<>>
  /\ Cardinality(arg.disk) < MaxEntries
  /\ \E dirPath \in {BasePath} \cup {e.path : e \in {x \in arg.disk : x.isDirectory}} :
     \E n \in 1..Len(DirentNames) : \E isDirectory \in BOOLEAN :
       LET fullPath == PathResolve(dirPath, DirentNames[n])
       IN  /\ Depth(fullPath) <= MaxDepth
           /\ \A e \in arg.disk : e.path # fullPath
           /\ arg' = [arg EXCEPT !.disk = @ \cup {[path |-> fullPath, isDirectory |-> isDirectory]}]
  /\ UNCHANGED << options, files, remote, faulty, gatheredFilePaths, filePathToEtagMap, digest,
                  pc, cursor, tasks, zombies, outcome, runs, history, sent, ret, peer >>

\* getFileNames(basePath, filters)
CallGetFileNames ==
  /\ ret = <<>>
  /\ ret' = << [filePaths |-> recurseDirectory(arg, BasePath)] >>
  /\ UNCHANGED << options, files, remote, faulty, gatheredFilePaths, filePathToEtagMap, digest,
                  pc, cursor, tasks, zombies, outcome, runs, history, sent, arg, peer >>

SpecGetFileNames == InitGetFileNames /\ [][MakeEntry \/ CallGetFileNames]_vars

-----------------------------------------------------------------------------
(* hashFromStream on its own: the events of the two streams *)

MaxChunks == 3

Chunks == {S(<<"a">>), S(<<"b">>)}

RECURSIVE ChunkLists(_)
\* what the source stream may deliver: up to n chunks
ChunkLists(n) ==
  IF n = 0 THEN {<<>>}
  ELSE ChunkLists(n - 1) \cup {Append(l, c) : l \in {x \in ChunkLists(n - 1) : Len(x) = n - 1},
                                             c \in Chunks}

\* the 'error' listeners hashFromStream registers: .on('error', reject) is
\* called on what pipe() returns, which is the hash stream; none is put on the
\* source stream
ErrorListeners == [source |-> {}, hash |-> {"reject"}]

\* a source that delivers chunks and ends, or (error) delivers the first
\* at of them and emits 'error', as fs.createReadStream does at = 0 chunks
\* for a missing file
InitHashFromStream ==
  /\ Idle(Scenario(DefaultOptions, StyleTree, FALSE))
  /\ arg \in {a \in [chunks : ChunkLists(MaxChunks), error : BOOLEAN, at : 0..MaxChunks] :
                /\ a.at <= Len(a.chunks)
                /\ ~a.error => a.at = Len(a.chunks)}
  /\ ret = <<>>
  /\ peer = <<>>

\* hashFromStream(readableStream): the executor of the promise has run
CallHashFromStream ==
  /\ ret = <<>>
  /\ ret' = << [source |-> "open", emitted |-> 0, written |-> <<>>, hash |-> "open",
               promise |-> "pending", value |-> <<>>, uncaught |-> FALSE] >>
  /\ UNCHANGED << options, files, remote, faulty, gatheredFilePaths, filePathToEtagMap, digest,
                  pc, cursor, tasks, zombies, outcome, runs, history, sent, arg, peer >>

\* the source emits 'data': pipe writes the chunk to the hash stream
SourceData ==
  /\ ret # <<>>
  /\ ret[1].source = "open"
  /\ ret[1].emitted < arg.at
  /\ ret' = << [ret[1] EXCEPT !.emitted = @ + 1,
                              !.written = @ \o arg.chunks[ret[1].emitted + 1]] >>
  /\ UNCHANGED << options, files, remote, faulty, gatheredFilePaths, filePathToEtagMap, digest,
                  pc, cursor, tasks, zombies, outcome, runs, history, sent, arg, peer >>

\* the source emits 'end': pipe ends the hash stream
SourceEnd ==
  /\ ret # <<>>
  /\ ret[1].source = "open"
  /\ ~arg.error
  /\ ret[1].emitted = Len(arg.chunks)
  /\ ret' = << [ret[1] EXCEPT !.source = "ended", !.hash = "ending"] >>
  /\ UNCHANGED << options, files, remote, faulty, gatheredFilePaths, filePathToEtagMap, digest,
                  pc, cursor, tasks, zombies, outcome, runs, history, sent, arg, peer >>

\* the hash stream emits 'finish': the promise resolves with the digest of
\* what was written
HashFinish ==
  /\ ret # <<>>
  /\ ret[1].hash = "ending"
  /\ ret' = << [ret[1] EXCEPT !.hash = "finished", !.promise = "resolved",
                              !.value = hashFromString(ret[1].written)] >>
  /\ UNCHANGED << options, files, remote, faulty, gatheredFilePaths, filePathToEtagMap, digest,
                  pc, cursor, tasks, zombies, outcome, runs, history, sent, arg, peer >>

\* the source emits 'error': its listeners are called; an emitter without an
\* 'error' listener throws the error, which nothing catches; pipe neither
\* ends the hash stream nor passes the error on to it
SourceError ==
  /\ ret # <<>>
  /\ ret[1].source = "open"
  /\ arg.error
  /\ ret[1].emitted = arg.at
  /\ ret' = << [ret[1] EXCEPT !.source = "errored",
                              !.promise = IF "reject" \in ErrorListeners.source
                                          THEN "rejected" ELSE @,
                              !.value = IF "reject" \in ErrorListeners.source
                                        THEN OtherError("read", <<>>) ELSE @,
                              !.uncaught = ErrorListeners.source = {}] >>
  /\ UNCHANGED << options, files, remote, faulty, gatheredFilePaths, filePathToEtagMap, digest,
                  pc, cursor, tasks, zombies, outcome, runs, history, sent, arg, peer >>

SpecHashFromStream ==
  InitHashFromStream
    /\ [][CallHashFromStream \/ SourceData \/ SourceEnd \/ HashFinish \/ SourceError]_vars

-----------------------------------------------------------------------------
(* Properties *)

Running == pc \in {"gather", "digest", "sync", "manifest"}

\* the paths run r has gathered, by its marks
GatheredBy(r) == {e.path : e \in {x \in history : x.op = "gathered" /\ x.run = r}}

MarkedAll(op, r) == \A p \in GatheredBy(r) : Mark(op, r, p) \in history

\* C1: the phases of a run come in the order Gather, Digest, Sync,
\* Publish-Manifest. A file is hashed only after the listing of its run has
\* returned; a rewrite, a headObject or an upload is issued only after every
\* gathered file of its run has been hashed and, while the run is on, has its
\* etag and its digest entry; the manifest upload is issued only after the Sync
\* of every gathered file has finished.
C1_PhaseOrder ==
  [][ \A e \in history' \ history :
        /\ e.op = "hashed" => Mark("listed", e.run, <<>>) \in history
        /\ e.op \in {"rewrite", "head", "upload"} =>
             /\ Mark("listed", e.run, <<>>) \in history
             /\ MarkedAll("hashed", e.run)
             /\ (e.run = runs /\ Running) =>
                  \A i \in 1..Len(gatheredFilePaths) :
                    /\ Get(filePathToEtagMap, gatheredFilePaths[i]) # Undefined
                    /\ DigestGet(digest, relativeFileName(gatheredFilePaths[i])) # Undefined
        /\ (e.op = "upload" /\ e.variant = "manifest") => MarkedAll("synced", e.run)
    ]_vars

\* C1 witness: the manifest upload of a run over two files is in flight, after
\* both files were hashed and synced
C1_Witness ==
  /\ pc = "manifest"
  /\ tasks.manifest.st = "upload"
  /\ Len(gatheredFilePaths) = 2
  /\ MarkedAll("hashed", runs)
  /\ MarkedAll("synced", runs)
  /\ \E e \in history : e.op = "upload" /\ e.variant = "manifest" /\ e.run = runs

\* C2: whenever run() has settled, resolved or rejected, gatheredFilePaths,
\* filePathToEtagMap and digest of the instance are empty.
C2_ResetOnSettle ==
  pc = "settled" =>
    /\ gatheredFilePaths = <<>>
    /\ filePathToEtagMap = <<>>
    /\ digest = <<>>

\* C2 witness: run() has rejected in the Sync phase, with a digest that was
\* filled, and the instance is empty
C2_Witness ==
  /\ pc = "settled"
  /\ outcome # <<>>
  /\ outcome[Len(outcome)].st = "rejected"
  /\ outcome[Len(outcome)].digest # <<>>
  /\ digest = <<>>
  /\ gatheredFilePaths = <<>>
  /\ filePathToEtagMap = <<>>

\* the run before the current one resolved over the tree as it is now
SecondRunUnchanged ==
  /\ runs >= 2
  /\ outcome # <<>>
  /\ outcome[1].st = "resolved"
  /\ outcome[1].tree = files
  /\ outcome[1].options = options

\* C3: a second run() over an unchanged tree, from the remote state the first
\* run left, issues no upload call and resolves with the same digest, in every
\* configuration.
C3_SecondRunUploadsNothing ==
  SecondRunUnchanged =>
    /\ \A e \in history : e.run = runs => e.op # "upload"
    /\ \A v \in {"original", "hashed", "manifest"} : tasks[v].st # "upload"
    /\ (pc = "settled" /\ Len(outcome) = 2 /\ outcome[2].st = "resolved") =>
         outcome[2].digest = outcome[1].digest

\* C4: the same hashed key is never used for two different bodies: when the
\* bytes uploaded as the hashed variant of a file differ, so do the keys.
C4_ContentAddressed ==
  \A a, b \in sent : (a.path = b.path /\ a.body # b.body) => a.key # b.key

\* C5: the fingerprint sent as IfNoneMatch for a key is the hash of exactly the
\* bytes the upload that follows sends as Body, for the original and for the
\* hashed variant.
C5_FingerprintOfBody ==
  \A e \in history :
    (e.op = "upload" /\ e.variant \in {"original", "hashed"}) =>
      e.etag = hashFromString(e.body)

\* the sub-tasks of uploadOriginalFile and uploadHashedFile, of this run and of
\* runs that have settled
FileTasks == {tasks.original, tasks.hashed} \cup zombies

UploadIssued(t) ==
  \E e \in history :
    e.op = "upload" /\ e.run = t.run /\ e.variant = t.variant /\ e.path = t.path

\* C7: after headObject, NotFound and a plain success lead to the upload;
\* NotModified leads to no upload and is no error; any other error is the
\* sub-task's error, reaches run() and leads to no upload.
C7_HeadOutcomes ==
  \A t \in FileTasks :
    /\ t.resp \in {"NotFound", "Found"} =>
         /\ t.st \in {"upload", "done", "failed"}
         /\ UploadIssued(t)
         /\ t.st = "failed" => t.err = OtherError("upload", t.key)
    /\ t.resp = "NotModified" =>
         /\ t.st = "done"
         /\ t.err = <<>>
         /\ ~UploadIssued(t)
    /\ t.resp = "InternalError" =>
         /\ t.st = "failed"
         /\ t.err = OtherError("headObject", t.key)
         /\ ~UploadIssued(t)
         /\ tasks.rejected # <<>>
    /\ t.st = "upload" => t.resp \in {"NotFound", "Found"}

\* C7 witness: in one run a headObject was answered NotModified and the
\* sub-task is done without upload, and another was answered with an error that
\* failed its sub-task
C7_Witness ==
  /\ tasks.original.resp = "NotModified"
  /\ tasks.original.st = "done"
  /\ ~UploadIssued(tasks.original)
  /\ tasks.hashed.resp = "InternalError"
  /\ tasks.hashed.st = "failed"
  /\ tasks.rejected = OtherError("headObject", tasks.hashed.key)

\* the Digest phase of the current run has ended
DigestEnded == pc \in {"sync", "manifest"}

GatheredNames == {relativeFileName(gatheredFilePaths[i]) : i \in 1..Len(gatheredFilePaths)}

PreHashed(name) == isHashedFileName(options, name)

\* the gathered pre-hashed files that get an alias entry
Aliased ==
  {i \in 1..Len(gatheredFilePaths) :
     /\ options.includePseudoUnhashedOriginalFilesInDigest
     /\ PreHashed(relativeFileName(gatheredFilePaths[i]))}

\* C8: at the end of the Digest phase the digest has one entry per gathered
\* file plus one per aliased pre-hashed file, and every gathered file has an
\* entry under its own relative name.
C8_DigestEntryCount ==
  DigestEnded =>
    /\ Len(digest) = Len(gatheredFilePaths) + Cardinality(Aliased)
    /\ \A n \in GatheredNames : DigestGet(digest, n) # Undefined

\* C9: at the end of the Digest phase a gathered file whose name matches the
\* pre-hashed pattern is mapped to its own unmodified destination key; with
\* includePseudoUnhashedOriginalFilesInDigest its hash-stripped name is mapped
\* to that same key, and without the option there is no entry but those of the
\* gathered names.
C9_PreHashedEntries ==
  DigestEnded =>
    /\ \A n \in {x \in GatheredNames : PreHashed(x)} :
         /\ DigestGet(digest, n) = s3KeyForRelativeFileName(options, n)
         /\ options.includePseudoUnhashedOriginalFilesInDigest =>
              DigestGet(digest, unhashedFileName(options, n))
                = s3KeyForRelativeFileName(options, n)
    /\ ~options.includePseudoUnhashedOriginalFilesInDigest =>
         DigestNames(digest) = GatheredNames

\* x is '.word' or '.word.word', a word being one or more of [A-Za-z0-9_]
ExtensionShape(x) ==
  LET dots == {i \in 1..Len(x) : x[i] = Ch(".")}
  IN  /\ Len(x) >= 2
      /\ x[1] = Ch(".")
      /\ x[Len(x)] # Ch(".")
      /\ Cardinality(dots) \in {1, 2}
      /\ \A i \in 1..Len(x) : i \in dots \/ IsWord(x[i])
      /\ \A i \in dots : (i + 1) \notin dots

\* where the trailing '(.word)?.word' part of key starts, 0 if it has none
TrailingExtension(key) ==
  LET starts == {i \in 1..Len(key) : ExtensionShape(Drop(key, i - 1))}
  IN  IF starts = {} THEN 0 ELSE Least(starts)

\* C10: for a key with an extension, hashedFileKey(key, hash) is prefix, '-',
\* hash, suffix, where suffix is the trailing '(.word)?.word' part of the key
\* and prefix is what comes before it; taking '-' and the hash out again gives
\* the key. 'app.min.js' becomes 'app-<hash>.min.js' and 'style.css' becomes
\* 'style-<hash>.css'.
C10_HashBeforeExtension ==
  (ret # <<>> /\ TrailingExtension(arg.key) > 0) =>
    LET at == TrailingExtension(arg.key)
        prefix == Take(arg.key, at - 1)
        suffix == Drop(arg.key, at - 1)
        out == ret[1]
    IN  /\ out = prefix \o S(<<"-">>) \o arg.hash \o suffix
        /\ Take(out, Len(prefix)) \o Drop(out, Len(prefix) + 1 + Len(arg.hash)) = arg.key
        /\ arg.key = AppMinJs =>
             out = S(<<"a", "p", "p", "-">>) \o arg.hash \o S(<<".", "m", "i", "n", ".", "j", "s">>)
        /\ arg.key = StyleCss =>
             out = S(<<"s", "t", "y", "l", "e", "-">>) \o arg.hash \o S(<<".", "c", "s", "s">>)

\* C10 witness: hashedFileKey has answered for 'app.min.js', with the hash
\* before '.min.js'
C10_Witness ==
  /\ ret # <<>>
  /\ arg.key = AppMinJs
  /\ TrailingExtension(arg.key) = 4
  /\ ret[1] = S(<<"a", "p", "p", "-">>) \o arg.hash \o S(<<".", "m", "i", "n", ".", "j", "s">>)

\* the options but for noUpload
ButNoUpload(o) == [o EXCEPT !.noUpload = FALSE]

\* C6: with options.noUpload no headObject and no upload is ever issued, run()
\* does not reject with an error of the store, and it resolves with the digest
\* a run without noUpload resolves with for the same tree and configuration.
C6_DryRun ==
  /\ options.noUpload =>
       /\ \A e \in history : e.op \notin {"head", "upload"}
       /\ \A v \in {"original", "hashed", "manifest"} : tasks[v].st \notin {"head", "upload"}
       /\ zombies = {}
       /\ tasks.rejected = <<>>
       /\ (pc = "settled" /\ outcome[Len(outcome)].st = "rejected") =>
            outcome[Len(outcome)].err = OtherError("readdir", BasePath)
  /\ \A i, j \in 1..Len(outcome) :
       ( /\ outcome[i].st = "resolved" /\ outcome[j].st = "resolved"
         /\ outcome[i].tree = outcome[j].tree
         /\ outcome[i].options.noUpload /\ ~outcome[j].options.noUpload
         /\ ButNoUpload(outcome[i].options) = outcome[j].options )
       => outcome[i].digest = outcome[j].digest

\* C6 witness: a run with noUpload has resolved after a run without it over the
\* same tree, both with the same digest of two entries, and the store holds
\* what the first run left
C6_Witness ==
  /\ pc = "settled"
  /\ options.noUpload
  /\ Len(outcome) = 2
  /\ outcome[1].st = "resolved" /\ ~outcome[1].options.noUpload
  /\ outcome[2].st = "resolved" /\ outcome[2].options.noUpload
  /\ outcome[1].tree = outcome[2].tree
  /\ outcome[1].digest = outcome[2].digest
  /\ Len(outcome[2].digest) = 2
  /\ \A e \in history : e.op \notin {"head", "upload"}

\* the manifest uploads issued, by their events
ManifestUploads == {e \in history : e.op = "upload" /\ e.variant = "manifest"}

\* C11: the manifest upload sends the JSON serialisation of the completed
\* digest, which has an entry for every gathered file, under exactly
\* options.digestFileKey (no prefix, no hash) with ContentType
\* application/json; with noUploadDigestFile no manifest upload is issued.
C11_Manifest ==
  /\ \A e \in ManifestUploads :
       /\ e.key = options.digestFileKey
       /\ e.type = "application/json"
       /\ ~options.noUploadDigestFile
       /\ (e.run = runs /\ pc = "manifest") =>
            /\ e.body = JSONstringify(digest)
            /\ \A n \in GatheredNames : \E i \in 1..Len(digest) : digest[i].name = n
  /\ (pc = "manifest" /\ options.noUploadDigestFile) =>
       /\ tasks.manifest.st = "done"
       /\ ManifestUploads = {}
  /\ (pc = "manifest" /\ ~options.noUploadDigestFile /\ ~options.noUpload) =>
       \E e \in ManifestUploads : e.run = runs

\* C11 witness: with prefix 'assets' the manifest of two files is being uploaded
\* under 'asset-map.json'
C11_Witness ==
  /\ pc = "manifest"
  /\ options.prefix = Assets
  /\ tasks.manifest.st = "upload"
  /\ tasks.manifest.key = DEFAULT_DIGEST_FILE_NAME
  /\ tasks.manifest.body = JSONstringify(digest)
  /\ Len(digest) = 2
  /\ \E e \in ManifestUploads : e.run = runs /\ e.key = DEFAULT_DIGEST_FILE_NAME

\* the first run over css/app.css and img/logo.png, nothing pre-hashed and
\* nothing suppressed, has come to its manifest
EndToEndCase ==
  /\ runs = 1
  /\ pc = "manifest"
  /\ ~options.hashedOriginalFileRegexp
  /\ ~options.noUpload /\ ~options.noUploadDigestFile
  /\ ~options.noUploadOriginalFiles /\ ~options.noUploadHashedFiles
  /\ GatheredNames = {AppCss, LogoPng}
  /\ FileData(files, FullPath(AppCss)) = UrlLogo

UploadsOf(r, v) == {e \in history : e.op = "upload" /\ e.run = r /\ e.variant = v}

\* C12: over css/app.css (holding url(/img/logo.png)) and img/logo.png, an
\* empty store, no pre-hashed pattern and no suppression flag, one run issues
\* exactly 5 uploads: 2 originals, 2 hashed variants, 1 manifest. The body under
\* the hashed key of app.css has the reference rewritten to the hashed key of
\* logo.png, the body under its original key is the file as it is.
C12_EndToEnd ==
  EndToEndCase =>
    /\ Cardinality({e \in history : e.op = "upload" /\ e.run = 1}) = 5
    /\ Cardinality(UploadsOf(1, "original")) = 2
    /\ Cardinality(UploadsOf(1, "hashed")) = 2
    /\ Cardinality(UploadsOf(1, "manifest")) = 1
    /\ {e.key : e \in UploadsOf(1, "original")}
         = {s3KeyForRelativeFileName(options, n) : n \in {AppCss, LogoPng}}
    /\ \A e \in UploadsOf(1, "original") :
         e.path = FullPath(AppCss) => e.body = UrlLogo
    /\ \A e \in UploadsOf(1, "hashed") :
         /\ e.key = DigestGet(digest, relativeFileName(e.path))
         /\ (e.path = FullPath(AppCss) /\ ~options.gzipHashedFileKeyRegexp) =>
              /\ e.body = UrlOpen \o DigestGet(digest, LogoPng) \o S(<<")">>)
              /\ e.body # UrlLogo

\* C12 witness: that run, with prefix 'assets', is uploading its manifest after
\* the rewritten stylesheet was uploaded
C12_Witness ==
  /\ EndToEndCase
  /\ options.prefix = Assets
  /\ ~options.gzipHashedFileKeyRegexp
  /\ tasks.manifest.st = "upload"
  /\ \E e \in UploadsOf(1, "hashed") :
       /\ e.path = FullPath(AppCss)
       /\ e.body = UrlOpen \o PathJoin(Assets, hashedFileKey(LogoPng, hashFromString(S(<<"1">>))))
                     \o S(<<")">>)

\* the key d has as its own property name
OwnKey(d, name) == d[CHOOSE i \in 1..Len(d) : d[i].name = name].key

\* what a piece of a stylesheet is to become: its path replaced when the piece
\* is url(/<path>) with <path> a key of the digest, the piece itself otherwise
Rewritten(piece, d) ==
  IF \E n \in DigestNames(d) : piece = UrlOpen \o n \o S(<<")">>)
  THEN LET n == CHOOSE n \in DigestNames(d) : piece = UrlOpen \o n \o S(<<")">>)
       IN  UrlOpen \o OwnKey(d, n) \o S(<<")">>)
  ELSE piece

\* C13: rewriting a stylesheet replaces url(/<path>) by url(/<digest[path]>) if
\* and only if <path> is exactly a key of the digest; every other reference
\* (external, quoted, relative, broken, a name without digest entry) is left as
\* it is. With the digest {"css/a.css": "assets/css/a-H1.css", "img/b.png":
\* "assets/img/b-H2.png"}, url(/img/b.png) becomes url(/assets/img/b-H2.png).
C13_CssUrlsRewritten ==
  ret # <<>> =>
    ret[1] = Flatten([i \in 1..Len(arg.refs) |-> Rewritten(arg.refs[i], arg.digest)])

\* the sub-tasks of the current file that have failed
FailedInSync == {t \in {tasks.original, tasks.hashed} : t.st = "failed"}

\* C14: when a conditional check or an upload of the Sync phase fails with an
\* error other than NotFound / NotModified, run() rejects with the first such
\* error, no manifest upload is issued in that run, what the run has uploaded
\* stays in the store, and the instance state is reset.
C14_SyncFailure ==
  [][ (pc' = "settled" /\ FailedInSync # {}) =>
        /\ outcome'[Len(outcome')].st = "rejected"
        /\ outcome'[Len(outcome')].err = tasks.rejected
        /\ tasks.rejected \in {t.err : t \in FailedInSync}
        /\ \A t \in FailedInSync : t.err[1].op \in {"headObject", "upload"}
        /\ \A e \in history : e.run = runs => e.path \in {<<>>} \cup
             {gatheredFilePaths[i] : i \in 1..cursor} \/ e.op \in {"gathered", "hashed"}
        /\ \A e \in ManifestUploads : e.run # runs
        /\ tasks.manifest.st = "idle"
        /\ \A z \in zombies' : z.variant # "manifest"
        /\ remote' = remote
        /\ gatheredFilePaths' = <<>> /\ filePathToEtagMap' = <<>> /\ digest' = <<>>
    ]_vars

\* C14 witness: the first run has rejected with the error of an upload, after
\* it had stored an object, which is still there; no manifest was stored
C14_Witness ==
  /\ pc = "settled"
  /\ runs = 1
  /\ outcome[Len(outcome)].st = "rejected"
  /\ outcome[Len(outcome)].err # <<>>
  /\ outcome[Len(outcome)].err[1].op = "upload"
  /\ remote # <<>>
  /\ options.digestFileKey \notin DOMAIN remote
  /\ digest = <<>>

\* C15: a remote error for one file is surfaced to the caller without aborting
\* the other files: when run() rejects with it, every gathered file has had its
\* sub-tasks started in that run.
C15_SiblingFilesProcessed ==
  [][ (pc' = "settled" /\ FailedInSync # {}) =>
        /\ outcome'[Len(outcome')].err = tasks.rejected
        /\ cursor = Len(gatheredFilePaths)
        /\ \A i \in 1..Len(gatheredFilePaths) :
             \E e \in history : e.run = runs /\ e.path = gatheredFilePaths[i]
                                  /\ e.op \in {"head", "rewrite", "synced"}
    ]_vars

\* what addFilesToDigest of a newly constructed instance leaves in its digest
\* after the first n paths of the listing of tree
RECURSIVE FreshDigest(_, _, _)
FreshDigest(opts, tree, n) ==
  IF n = 0 THEN <<>>
  ELSE addFileToDigest(opts, FreshDigest(opts, tree, n - 1), getFileNames(tree)[n],
                       hashFromFile(tree, getFileNames(tree)[n]))

\* and in its filePathToEtagMap
FreshEtags(tree, n) ==
  [p \in {getFileNames(tree)[i] : i \in 1..n} |-> hashFromFile(tree, p)]

\* the sub-task of variant v a newly constructed instance starts for filePath
\* after its own Digest phase
FreshTask(v, filePath, d) ==
  LET name == relativeFileName(filePath)
  IN  [ key |-> IF v = "original" THEN s3KeyForRelativeFileName(options, name)
                ELSE DigestGet(d, name),
        etag |-> IF v = "original" THEN hashFromFile(files, filePath)
                 ELSE LET r == replaceHashedFilenames(filePath, name, d, FileData(files, filePath))
                      IN  IF r.hash # Undefined THEN r.hash ELSE hashFromFile(files, filePath) ]

\* C16: a run() on an instance whose earlier run() has settled, resolved or
\* rejected, gathers, digests, checks and uploads what a newly constructed
\* instance with the same options would for the tree as it is now; nothing of an
\* earlier run (a path, a fingerprint, a digest entry of a file since deleted)
\* is in the later run's state, digest or manifest.
C16_ReuseIsFresh ==
  /\ pc \in {"digest", "sync", "manifest"} => gatheredFilePaths = getFileNames(files)
  /\ pc = "digest" =>
       /\ digest = FreshDigest(options, files, cursor)
       /\ filePathToEtagMap = FreshEtags(files, cursor)
  /\ Running =>
       LET d == FreshDigest(options, files, Len(files))
       IN  /\ pc \in {"sync", "manifest"} =>
                /\ digest = d
                /\ filePathToEtagMap = FreshEtags(files, Len(files))
           /\ \A e \in {x \in history : x.run = runs /\ x.op \in {"head", "upload"}} :
                IF e.variant = "manifest"
                THEN e.body = JSONstringify(d)
                ELSE /\ e.path \in {getFileNames(files)[i] : i \in 1..Len(files)}
                     /\ LET t == FreshTask(e.variant, e.path, d)
                        IN  e.key = t.key /\ e.etag = t.etag
  /\ (pc = "settled" /\ outcome[Len(outcome)].st = "resolved") =>
       outcome[Len(outcome)].digest
         = FreshDigest(options, outcome[Len(outcome)].tree, Len(outcome[Len(outcome)].tree))

\* C16 witness: after a run that was rejected and the deletion of a file, the
\* second run on the instance is uploading the manifest of the one file left
C16_Witness ==
  /\ runs = 2
  /\ pc = "manifest"
  /\ tasks.manifest.st = "upload"
  /\ outcome[1].st = "rejected"
  /\ Len(outcome[1].tree) = 2
  /\ Len(files) = 1
  /\ Len(digest) = 1
  /\ digest = FreshDigest(options, files, 1)
  /\ tasks.manifest.body = JSONstringify(digest)

\* the last extension of a list, <<>> when it is empty; the one before it
LastExt(exts) == IF Len(exts) = 0 THEN <<>> ELSE exts[Len(exts)]

ExtBeforeLast(exts) == IF Len(exts) < 2 THEN <<>> ELSE exts[Len(exts) - 1]

\* C17: the first rule that matches decides: a path ending in .js or .js.gz is
\* JavaScript; else one ending in .css or .css.gz is CSS; else one ending in
\* .js.map or .css.map is JSON; else the mime table decides, and
\* application/octet-stream when it does not know. isGzipped is true exactly
\* for the paths ending in .gz, whatever the kind.
C17_Classification ==
  ret # <<>> =>
    LET last == LastExt(arg.exts)
        before == ExtBeforeLast(arg.exts)
    IN  /\ ret[1].type =
             ( IF last = ExtJs \/ (last = ExtGz /\ before = ExtJs)
                 THEN "application/javascript"
               ELSE IF last = ExtCss \/ (last = ExtGz /\ before = ExtCss)
                 THEN "text/css"
               ELSE IF last = ExtMap /\ before \in {ExtJs, ExtCss}
                 THEN "application/json"
               ELSE IF last = ExtPng THEN "image/png"
               ELSE IF last = ExtGz THEN "application/gzip"
               ELSE IF last = ExtMap THEN "application/json"
               ELSE "application/octet-stream" )
        /\ ret[1].gzipped = (last = ExtGz)

\* C17 witness: 'app.js.gz' is JavaScript and compressed
C17_Witness ==
  /\ ret # <<>>
  /\ arg.exts = <<ExtJs, ExtGz>>
  /\ ret[1].type = "application/javascript"
  /\ ret[1].gzipped

\* the calls of kind op issued for sub-task t
CallsOf(op, t) ==
  {e \in history : e.op = op /\ e.run = t.run /\ e.variant = t.variant /\ e.path = t.path}

\* C18: the original variant of a file is skipped (no check, no upload under
\* its unhashed key) exactly when noUploadOriginalFiles is set and the file's
\* name does not match the pre-hashed pattern; a pre-hashed file is checked,
\* and uploaded when the check allows it, under its original key also with
\* noUploadOriginalFiles, unless noUpload is set.
C18_OriginalVariantSkipped ==
  LET t == tasks.original
      name == relativeFileName(t.path)
      skipped == options.noUploadOriginalFiles /\ ~PreHashed(name)
  IN  (pc = "sync" /\ t.st # "idle" /\ t.run = runs) =>
        /\ t.key = s3KeyForRelativeFileName(options, name)
        /\ skipped => (t.st = "done" /\ CallsOf("head", t) = {} /\ CallsOf("upload", t) = {})
        /\ options.noUpload => (CallsOf("head", t) = {} /\ CallsOf("upload", t) = {})
        /\ (~skipped /\ ~options.noUpload) =>
             /\ \E e \in CallsOf("head", t) : e.key = t.key
             /\ t.resp \in {"NotFound", "Found"} => \E e \in CallsOf("upload", t) : e.key = t.key
             /\ t.resp = "NotModified" => CallsOf("upload", t) = {}

\* C18 witness: with noUploadOriginalFiles a pre-hashed file is being uploaded
\* under its own name
C18_Witness ==
  /\ pc = "sync"
  /\ options.noUploadOriginalFiles
  /\ ~options.noUpload
  /\ PreHashed(relativeFileName(tasks.original.path))
  /\ tasks.original.st = "upload"
  /\ tasks.original.key = AppHashedJs
  /\ CallsOf("upload", tasks.original) # {}

\* the hashed-variant step of filePath has nothing to do
HashedVariantSkipped(filePath) ==
  LET originalFileName == relativeFileName(filePath)
  IN  \/ DigestGet(digest, originalFileName) = Undefined
      \/ DigestGet(digest, originalFileName) = s3KeyForRelativeFileName(options, originalFileName)
      \/ options.noUploadHashedFiles

\* C19: the hashed-variant step issues no rewrite, no conditional check and no
\* upload, and does not fail, when the digest value equals the original key,
\* when noUploadHashedFiles is set, or when the digest has no entry for the
\* file (a state the run only passes through before the digest is complete,
\* where the step is evaluated without being taken); in every other case the
\* body is rewritten and, without noUpload, a conditional check on the hashed
\* key is issued.
C19_HashedVariantSkipped ==
  LET t == tasks.hashed
  IN  /\ \A i \in 1..Len(files) :
           HashedVariantSkipped(FullPath(files[i].name)) =>
             /\ uploadHashedFile(FullPath(files[i].name)).st = "done"
             /\ uploadHashedFile(FullPath(files[i].name)).err = <<>>
      /\ (pc = "sync" /\ t.st # "idle" /\ t.run = runs) =>
           /\ HashedVariantSkipped(t.path) =>
                /\ t.st = "done"
                /\ t.err = <<>>
                /\ CallsOf("rewrite", t) = {}
                /\ CallsOf("head", t) = {}
                /\ CallsOf("upload", t) = {}
           /\ ~HashedVariantSkipped(t.path) =>
                /\ CallsOf("rewrite", t) # {}
                /\ t.key = DigestGet(digest, relativeFileName(t.path))
                /\ options.noUpload => CallsOf("head", t) = {}
                /\ (~options.noUpload /\ t.st # "rewrite") =>
                     \E e \in CallsOf("head", t) : e.key = t.key

\* C19 witness: the hashed-variant step of a pre-hashed file was skipped as a
\* pass-through while its original variant is being checked
C19_Witness ==
  /\ pc = "sync"
  /\ tasks.hashed.run = runs
  /\ tasks.hashed.st = "done"
  /\ tasks.hashed.key = tasks.original.key
  /\ tasks.hashed.key = AppHashedJs
  /\ tasks.original.st = "head"
  /\ ~options.noUploadHashedFiles
  /\ CallsOf("rewrite", tasks.hashed) = {}

\* what a conditional check followed by an upload leaves in store
SoloPut(store, key, etag, body) ==
  IF headObject(store, key, etag) = "NotModified" THEN store ELSE Put(store, key, body)

\* the bucket after the original variant of filePath in a run that is alone
SoloOriginal(store, filePath) ==
  LET name == relativeFileName(filePath)
  IN  IF options.noUpload \/ (options.noUploadOriginalFiles /\ ~PreHashed(name)) THEN store
      ELSE LET t == FreshTask("original", filePath, FreshDigest(options, files, Len(files)))
           IN  SoloPut(store, t.key, t.etag, FileData(files, filePath))

\* and after its hashed variant
SoloHashed(store, filePath) ==
  LET name == relativeFileName(filePath)
      originalFileKey == s3KeyForRelativeFileName(options, name)
      d == FreshDigest(options, files, Len(files))
      r == replaceHashedFilenames(filePath, name, d, FileData(files, filePath))
      body == IF shouldGzipHashedFileKey(options, originalFileKey)
              THEN gzipStream(r.stream) ELSE r.stream
  IN  IF \/ options.noUpload
         \/ options.noUploadHashedFiles
         \/ DigestGet(d, name) \in {Undefined, originalFileKey}
      THEN store
      ELSE LET t == FreshTask("hashed", filePath, d)
           IN  SoloPut(store, t.key, t.etag, body)

RECURSIVE SoloSync(_)
\* the bucket, empty at first, after the Sync step of a run that is alone got
\* through the first n files
SoloSync(n) ==
  IF n = 0 THEN <<>>
  ELSE SoloHashed(SoloOriginal(SoloSync(n - 1), getFileNames(files)[n]), getFileNames(files)[n])

\* the bucket a run that is alone and resolves leaves
SoloStore ==
  IF options.noUpload \/ options.noUploadDigestFile THEN SoloSync(Len(files))
  ELSE Put(SoloSync(Len(files)), options.digestFileKey,
           JSONstringify(FreshDigest(options, files, Len(files))))

\* the process with instance i has finished: its run() settled, or the process
\* died, and nothing of it is in flight
ProcessFinished(i) == (i.pc = "settled" /\ i.zombies = {}) \/ i.pc = "crashed"

ProcessResolved(i) ==
  i.pc = "settled" /\ i.zombies = {} /\ i.outcome[Len(i.outcome)].st = "resolved"

\* C20: two processes sync the same tree to the same bucket and prefix, their
\* steps interleaved in any way: once both have finished, every key of the
\* bucket holds the bytes a run that is alone stores under it, and when both
\* resolved the bucket is the one such a run leaves (as it is when one
\* process resolved and the other never started).
C20_ConcurrentRuns ==
  peer # <<>> =>
    /\ (ProcessFinished(Instance) /\ ProcessFinished(peer)) =>
         \A k \in DOMAIN remote : k \in DOMAIN SoloStore /\ remote[k] = SoloStore[k]
    /\ (ProcessResolved(Instance) /\ (ProcessResolved(peer) \/ peer.pc = "idle")) =>
         remote = SoloStore

\* C20 witness: both processes resolved after each of them uploaded the same
\* hashed variant, and the bucket is the one a run that is alone leaves
C20_Witness ==
  /\ peer # <<>>
  /\ ProcessResolved(Instance)
  /\ ProcessResolved(peer)
  /\ sent \cap peer.sent # {}
  /\ remote = SoloStore
  /\ remote # <<>>

\* C21: when the directory listing fails in Gather, or hashing a gathered file
\* fails in Digest, run() rejects with that error, no headObject and no upload
\* (manifest included) is issued in that run, and the instance state is reset.
C21_GatherDigestFailure ==
  [][ (pc \in {"gather", "digest"} /\ pc' \notin {"gather", "digest", "sync"}) =>
        /\ pc' = "settled"
        /\ outcome'[Len(outcome')].st = "rejected"
        /\ outcome'[Len(outcome')].err # <<>>
        /\ outcome'[Len(outcome')].err[1].op \in {"readdir", "read"}
        /\ \A e \in history : e.run = runs => e.op \notin {"head", "upload"}
        /\ remote' = remote
        /\ tasks' = NoTasks
        /\ gatheredFilePaths' = <<>> /\ filePathToEtagMap' = <<>> /\ digest' = <<>>
    ]_vars

\* C22: when the source stream of a hash computation emits an error, the
\* promise of hashFromStream / hashFromFile is rejected with it: it does not
\* stay pending, and the error is not thrown as an unhandled 'error' event.
C22_StreamErrorRejects ==
  (ret # <<>> /\ ret[1].source = "errored") =>
    /\ ret[1].promise = "rejected"
    /\ ~ret[1].uncaught

\* the file of arg is a stylesheet or a script
RewrittenKind ==
  getContentType(FullPath(arg.name)) \in {CONTENT_TYPE_CSS, CONTENT_TYPE_JS}

\* the text the replacer of the file's kind makes of the text of arg
RewrittenText ==
  IF getContentType(FullPath(arg.name)) = CONTENT_TYPE_JS
  THEN replaceHashedFilenamesInJs(Flatten(arg.parts), Dirname(arg.name), arg.digest)
  ELSE replaceHashedFilenamesInCss(Flatten(arg.parts), Dirname(arg.name), arg.digest)

\* C23: replaceHashedFilenames rewrites only files classified as CSS or
\* JavaScript; for every other kind it returns transformed = false, a stream of
\* the file's own bytes and no hash, whatever the digest holds.
C23_OnlyCssAndJs ==
  ret # <<>> =>
    /\ ret[1].transformed => RewrittenKind
    /\ ~RewrittenKind =>
         /\ ~ret[1].transformed
         /\ ret[1].stream = FileBytes(arg)
         /\ ret[1].hash = Undefined
         /\ ret[1].err = <<>>

\* C23 witness: an image and a sourcemap whose bytes hold a reference that is
\* in the digest come back as they are
C23_Witness ==
  /\ ret # <<>>
  /\ arg.name \in {BPng, ACss \o DotMap}
  /\ arg.digest = RewriteDigest
  /\ arg.parts = << UrlOpen \o BPng \o S(<<")">>) >>
  /\ ~ret[1].transformed
  /\ ret[1].stream = UrlOpen \o BPng \o S(<<")">>)

\* C25: when a gzip-named CSS/JS file is changed by rewriting, the returned
\* stream is the re-compressed rewritten text of the decompressed file and the
\* returned hash is the hash of those compressed bytes; for a file that is not
\* gzip-named the stream is the rewritten text and the hash is its hash.
C25_RecomputedHash ==
  (ret # <<>> /\ ret[1].transformed) =>
    /\ RewrittenText # Flatten(arg.parts)
    /\ ret[1].hash = hashFromString(ret[1].stream)
    /\ IF isGzipped(FullPath(arg.name))
       THEN /\ ret[1].stream = zlibGzip(RewrittenText)
            /\ ret[1].hash # hashFromString(RewrittenText)
       ELSE ret[1].stream = RewrittenText

\* C25 witness: css/a.css.gz with a reference that is in the digest comes back
\* compressed, with the hash of the compressed bytes
C25_Witness ==
  /\ ret # <<>>
  /\ arg.name = ACss \o DotGz
  /\ arg.parts = << UrlOpen \o BPng \o S(<<")">>) >>
  /\ ret[1].transformed
  /\ zlibGunzip(ret[1].stream) = UrlOpen \o RewriteDigest[1].key \o S(<<")">>)
  /\ ret[1].hash = hashFromString(zlibGzip(UrlOpen \o RewriteDigest[1].key \o S(<<")">>)))

\* the text of the file replaceHashedFilenames returned a stream of
ResultText ==
  IF isGzipped(FullPath(arg.name)) THEN zlibGunzip(ret[1].stream) ELSE ret[1].stream

\* replaceHashedFilenames returned the file as it is
ResultUnchanged ==
  /\ ret[1].err = <<>>
  /\ ~ret[1].transformed
  /\ ret[1].stream = FileBytes(arg)

\* the name D/name, for the directory D of the file of arg
InDirectory(name) ==
  IF Dirname(arg.name) = S(<<".">>) THEN name ELSE PathJoin(Dirname(arg.name), name)

\* C26: for a CSS file in directory D whose text ends with the comment
\* '/*# sourceMappingURL=<name> */' (a space before the end of the comment),
\* <name> is replaced by the basename of the digest value of D/<name> when the
\* digest has that entry, and the comment is left as it is when it has not.
C26_CssSourceMap ==
  LET comment == CssSourceMapOpen \o ACssMap \o S(<<" ", "*", "/">>)
      entry == InDirectory(ACssMap)
  IN  ( /\ ret # <<>>
        /\ getContentType(FullPath(arg.name)) = CONTENT_TYPE_CSS
        /\ EndsWith(Flatten(arg.parts), comment) ) =>
        /\ ret[1].err = <<>>
        /\ IF entry \in DigestNames(arg.digest)
           THEN \/ EndsWith(ResultText, CssSourceMapOpen \o Basename(DigestGet(arg.digest, entry))
                                          \o S(<<" ", "*", "/">>))
                \/ EndsWith(ResultText, CssSourceMapOpen \o Basename(DigestGet(arg.digest, entry))
                                          \o S(<<"*", "/">>))
           ELSE EndsWith(ResultText, comment)

\* the positions of the last line of text s where a sourceMappingURL comment
\* of a script starts
JsCommentStarts(s) ==
  LET ends == {j \in 1..Len(s) : IsCh(s[j], "\n") \/ IsCh(s[j], "\r")}
      from == IF ends = {} THEN 1 ELSE 1 + (CHOOSE j \in ends : \A k \in ends : k <= j)
  IN  {i \in from..(Len(s) - Len(JsSourceMapOpen)) :
         SubSeq(s, i, i + Len(JsSourceMapOpen) - 1) = JsSourceMapOpen}

\* C27: in a JavaScript file in directory D only the trailing comment
\* '//# sourceMappingURL=<name>' is rewritten: <name> becomes the basename of
\* the digest value of D/<name> when the digest has that entry, and the whole
\* file is unchanged otherwise; url(/...) and the text before the comment are
\* never modified.
C27_JsSourceMap ==
  LET text == Flatten(arg.parts)
      i == Least(JsCommentStarts(text))
      name == Drop(text, i + Len(JsSourceMapOpen) - 1)
  IN  (ret # <<>> /\ getContentType(FullPath(arg.name)) = CONTENT_TYPE_JS) =>
        IF JsCommentStarts(text) # {} /\ InDirectory(name) \in DigestNames(arg.digest)
        THEN /\ ret[1].err = <<>>
             /\ ResultText = Take(text, i - 1) \o JsSourceMapOpen
                               \o Basename(DigestGet(arg.digest, InDirectory(name)))
        ELSE ResultUnchanged

\* the text of the file at filePath
TextOf(filePath) == fileToString(filePath, FileData(files, filePath))

\* what the rewriter returns for the file at filePath with the completed
\* digest of a run over the tree
RewriteOf(filePath) ==
  replaceHashedFilenames(filePath, relativeFileName(filePath),
                         FreshDigest(options, files, Len(files)), FileData(files, filePath))

\* C24: for a CSS or JavaScript file whose rewritten text is its original
\* text the rewriter returns transformed = false, the file's own bytes and no
\* hash, and the conditional check of the hashed variant carries the hash
\* recorded for the file in the Digest phase; when the text did change it
\* carries the hash the rewriter recomputed.
C24_FingerprintOfRewrite ==
  \A e \in history :
    ( /\ e.variant = "hashed"
      /\ e.op \in {"rewrite", "head"}
      /\ getContentType(e.path) \in {CONTENT_TYPE_CSS, CONTENT_TYPE_JS} ) =>
      IF ~RewriteOf(e.path).transformed
      THEN /\ RewriteOf(e.path).stream = FileData(files, e.path)
           /\ RewriteOf(e.path).hash = Undefined
           /\ e.op = "rewrite" => (e.body = FileData(files, e.path) /\ e.etag = Undefined)
           /\ e.op = "head" => e.etag = hashFromFile(files, e.path)
      ELSE /\ RewriteOf(e.path).stream # TextOf(e.path)
           /\ e.etag = RewriteOf(e.path).hash

\* C29: in the headers of a file upload a caller-supplied value never replaces
\* the ContentType the classifier derives from the file path, whatever the
\* caller's headers and gzipHeaders are, while the caller's headers replace
\* the defaults of ACL and Bucket.
C29_KindHeadersWin ==
  ret # <<>> =>
    \A v \in {"original", "hashed"} :
      /\ ret[1][v]["ContentType"] = getContentType(FullPath(arg.name))
      /\ (options.headers["ACL"] # "" /\ options.gzipHeaders["ACL"] = "") =>
           ret[1][v]["ACL"] = options.headers["ACL"]
      /\ (options.headers["Bucket"] # "" /\ options.gzipHeaders["Bucket"] = "") =>
           ret[1][v]["Bucket"] = options.headers["Bucket"]

\* key is the hashed key of the file at filePath with '.gz' appended
AppendedGz(key, filePath) ==
  key = hashedFileKey(s3KeyForRelativeFileName(options, relativeFileName(filePath)),
                      hashFromFile(files, filePath)) \o DotGz

\* gzipHashedFileKeyRegexp matches the original key of the file at filePath
GzipMatches(filePath) ==
  shouldGzipHashedFileKey(options, s3KeyForRelativeFileName(options, relativeFileName(filePath)))

\* C28: for every file that is not pre-hashed the digest value ends with an
\* appended '.gz' exactly when gzipHashedFileKeyRegexp matches the file's
\* original key, prefix included; the body of the hashed variant is compressed
\* on the fly and sent with the gzip headers for exactly those files, so the
\* '.gz' of the key and the compression of the body agree.
C28_GzipSuffixAgrees ==
  /\ pc \in {"sync", "manifest"} =>
       \A i \in 1..Len(gatheredFilePaths) :
         ~PreHashed(relativeFileName(gatheredFilePaths[i])) =>
           (AppendedGz(DigestGet(digest, relativeFileName(gatheredFilePaths[i])),
                       gatheredFilePaths[i])
              <=> GzipMatches(gatheredFilePaths[i]))
  /\ \A e \in history :
       ( /\ e.variant = "hashed"
         /\ e.op \in {"head", "upload"}
         /\ ~PreHashed(relativeFileName(e.path)) ) =>
         /\ (e.body # <<>> /\ e.body[1].t = "gz" /\ e.body[1].ch = "") <=> GzipMatches(e.path)
         /\ e.headers = IF GzipMatches(e.path)
                        THEN ObjectAssign(fileHeaders(options, e.path), options.gzipHeaders)
                        ELSE fileHeaders(options, e.path)
         /\ GzipMatches(e.path) => e.headers["ContentEncoding"] = "gzip"
         /\ AppendedGz(e.key, e.path) <=> GzipMatches(e.path)

\* the directories above fullPath and below the base path
AncestorsBelowBase(fullPath) ==
  {Take(fullPath, i - 1) : i \in {k \in (Len(BasePath) + 2)..Len(fullPath) : IsCh(fullPath[k], "/")}}

\* a filter of arg matches the path of fullPath relative to the base path
FilterMatches(fullPath) ==
  \E f \in 1..Len(arg.filters) : RegExpMatch(PathRelative(BasePath, fullPath), arg.filters[f])

\* the files of the disk of arg
FilesOnDisk == {e.path : e \in {x \in arg.disk : ~x.isDirectory}}

\* the files that neither match a filter themselves nor lie under a directory that does
FilesKept ==
  {p \in FilesOnDisk : ~FilterMatches(p) /\ \A d \in AncestorsBelowBase(p) : ~FilterMatches(d)}

\* C30: getFileNames returns exactly the absolute paths of the files under the
\* base path such that no filter matches the file's relative path or the
\* relative path of one of its ancestor directories below the base path, each
\* exactly once: nothing under a matched directory is returned, a matched file
\* is omitted, and without filters every file is returned.
C30_FilteredListing ==
  ret # <<>> =>
    LET filePaths == ret[1].filePaths
    IN  /\ {filePaths[i] : i \in 1..Len(filePaths)} = FilesKept
        /\ \A i, j \in 1..Len(filePaths) : filePaths[i] = filePaths[j] => i = j
        /\ \A i \in 1..Len(filePaths) : IsCh(filePaths[i][1], "/")
        /\ arg.filters = <<>> => Len(filePaths) = Cardinality(FilesOnDisk)

\* a listing that left out a file under a matched directory although no filter
\* matches the file's own relative path, next to a file it returned and a
\* matched file it omitted
C30_Witness ==
  /\ ret # <<>>
  /\ Len(ret[1].filePaths) > 0
  /\ \E p \in FilesOnDisk \ FilesKept : ~FilterMatches(p)
  /\ \E p \in FilesOnDisk \ FilesKept : FilterMatches(p) /\ AncestorsBelowBase(p) = {}

\* the sub-tasks of files that are in flight, of this run or of an earlier one
SubTasks(ts, zs) == {ts.original, ts.hashed} \cup zs

\* e is issued by the sub-task t of the same run, file and variant
IssuedBy(e, t) == t.run = e.run /\ t.variant = e.variant /\ t.path = e.path

\* C31: the sub-steps of a file's variant are sequential: an upload to a key is
\* issued only when the conditional check for that key, issued in the same run,
\* has answered that the upload may go on, and the conditional check of a hashed
\* variant only when the rewrite of the file has completed; no upload of a file
\* variant is issued without a conditional check for the same key before it.
C31_SubStepsInOrder ==
  [][ \A e \in history' \ history :
        /\ (e.op = "upload" /\ e.variant # "manifest") =>
             \E t \in SubTasks(tasks, zombies) : \E u \in SubTasks(tasks', zombies') :
               /\ IssuedBy(e, t) /\ IssuedBy(e, u)
               /\ t.st = "head" /\ t.key = e.key
               /\ Event("head", t) \in history
               /\ u.st = "upload" /\ u.resp \in {"Found", "NotFound"}
        /\ (e.op = "head" /\ e.variant = "hashed") =>
             \E t \in SubTasks(tasks, zombies) :
               /\ IssuedBy(e, t)
               /\ t.st = "rewrite" /\ t.key = e.key
               /\ \E r \in history : r.op = "rewrite" /\ IssuedBy(r, t)
    ]_vars

\* an upload of a hashed variant has been issued, after its rewrite and its
\* conditional check
C31_Witness ==
  \E e \in history :
    /\ e.op = "upload" /\ e.variant = "hashed"
    /\ \E h \in history : h.op = "head" /\ h.run = e.run /\ h.path = e.path
                            /\ h.variant = "hashed" /\ h.key = e.key
    /\ \E r \in history : r.op = "rewrite" /\ r.run = e.run /\ r.path = e.path

\* the digest as the Digest phase of the run in progress leaves it
DigestOfRun == FreshDigest(options, files, Len(files))

\* C32: the digest is written only during the Digest phase: no step of Sync
\* (rewrite, conditional check, upload of either variant) and no step of
\* Publish-Manifest adds, removes or changes an entry, so every rewrite of a run
\* reads the same digest and the body of the manifest is the digest as it was at
\* the end of the Digest phase.
C32_DigestReadOnlyAfterDigest ==
  [][ /\ (pc \in {"sync", "manifest"} /\ pc' \in {"sync", "manifest"}) =>
           /\ digest' = digest
           /\ digest = DigestOfRun
      /\ \A e \in history' \ history :
           /\ e.op = "rewrite" =>
                /\ pc = "sync"
                /\ e.body = replaceHashedFilenames(e.path, relativeFileName(e.path), DigestOfRun,
                                                   FileData(files, e.path)).stream
           /\ (e.op = "upload" /\ e.variant = "manifest") =>
                e.body = JSONstringify(DigestOfRun)
    ]_vars

\* the manifest is being uploaded in a run that has rewritten a stylesheet
C32_Witness ==
  /\ pc = "manifest"
  /\ tasks.manifest.st = "upload"
  /\ \E e \in history :
       /\ e.op = "rewrite" /\ e.run = runs
       /\ e.body # FileData(files, e.path)

\* the conditional checks and uploads among events
StoreCalls(events) == {e \in events : e.op \in {"head", "upload"}}

\* C33: the sub-tasks of the original and of the hashed variant of a file are
\* started together and proceed in any order, and they never target the same
\* key: whenever both issue a conditional check or an upload, the hashed key
\* differs from the original destination key.
C33_VariantsOnOwnKeys ==
  [][ /\ (pc = "sync" /\ cursor' = cursor + 1) =>
           /\ tasks'.original.path = gatheredFilePaths[cursor']
           /\ tasks'.hashed.path = gatheredFilePaths[cursor']
           /\ tasks'.original.run = runs /\ tasks'.hashed.run = runs
           /\ tasks'.original.key
                = s3KeyForRelativeFileName(options, relativeFileName(gatheredFilePaths[cursor']))
      /\ \A o, h \in StoreCalls(history') :
           ( /\ o.variant = "original" /\ h.variant = "hashed"
             /\ o.run = h.run /\ o.path = h.path ) => o.key # h.key
    ]_vars

\* both sub-tasks of a file are waiting for the store, each on its own key
C33_Witness ==
  /\ pc = "sync"
  /\ tasks.original.st = "head"
  /\ tasks.hashed.st = "upload"
  /\ tasks.original.path = tasks.hashed.path
  /\ tasks.original.key # tasks.hashed.key

\* the other order of the two sub-tasks: the original variant is ahead
C33_WitnessOriginalAhead ==
  /\ pc = "sync"
  /\ tasks.original.st = "upload"
  /\ tasks.hashed.st = "rewrite"
  /\ tasks.original.path = tasks.hashed.path

\* the digest a run has resolved with holds an entry for every file of the
\* tree the run has gathered
HoldsEveryFile(o) ==
  \A i \in 1..Len(o.tree) : \E k \in 1..Len(o.digest) : o.digest[k].name = o.tree[i].name

\* C34: the digest a successful run() resolves with still holds an entry for
\* every file gathered in that run after reset() has run: reset() gives the
\* instance a new empty digest and leaves the one handed to the caller as it is,
\* and a later run on the instance does not change a digest returned before.
C34_ReturnedDigestKept ==
  [][ /\ \A i \in 1..Len(outcome') :
           outcome'[i].st = "resolved" => HoldsEveryFile(outcome'[i])
      /\ pc' = "settled" => digest' = <<>>
      /\ (outcome # <<>> /\ outcome[Len(outcome)].st = "resolved") =>
           \E j \in 1..Len(outcome') :
             /\ outcome'[j].st = "resolved"
             /\ outcome'[j].digest = outcome[Len(outcome)].digest
             /\ outcome'[j].tree = outcome[Len(outcome)].tree
    ]_vars

\* a second run on the instance is filling its own digest while the caller
\* holds the digest of the first run, with its two entries
C34_Witness ==
  /\ runs = 2
  /\ pc = "sync"
  /\ Len(digest) = 2
  /\ outcome # <<>>
  /\ outcome[1].st = "resolved"
  /\ Len(outcome[1].digest) = 2
  /\ outcome[1].digest # digest

\* the key derived from the file at filePath itself: its own destination key
\* when it is pre-hashed, its own hashed key otherwise
KeyFromItself(filePath) ==
  LET name == relativeFileName(filePath)
      key == s3KeyForRelativeFileName(options, name)
      hashed == hashedFileKey(key, hashFromFile(files, filePath))
  IN  IF PreHashed(name) THEN key
      ELSE IF shouldGzipHashedFileKey(options, key) THEN hashed \o DotGz
      ELSE hashed

\* C35: at the end of the Digest phase the digest value under the own relative
\* name of every gathered file is the key derived from that file itself, whatever
\* other files were gathered and in whatever order, so the upload of a hashed
\* variant never writes a file's content under the destination key of another
\* gathered file; also with pseudo-unhashed aliases and a tree that holds a
\* pre-hashed file and a file named like its alias.
C35_OwnEntryFromItself ==
  /\ DigestEnded =>
       \A i \in 1..Len(gatheredFilePaths) :
         DigestGet(digest, relativeFileName(gatheredFilePaths[i]))
           = KeyFromItself(gatheredFilePaths[i])
  /\ \A e \in sent :
       \A i \in 1..Len(files) :
         FullPath(files[i].name) # e.path =>
           e.key # s3KeyForRelativeFileName(options, files[i].name)

\* run() number r has settled, resolved or rejected
HasSettled(r) == r < runs \/ (r = runs /\ pc = "settled")

\* C36: once run() has settled, that run issues no further headObject or upload
\* call and reads no further instance state: when the sub-task of one variant of
\* a file fails while the sub-task of the other variant is in flight, the other
\* does not go on to a conditional check or an upload after run() has rejected
\* and reset() has emptied the fingerprint map.
C36_NoCallAfterSettle ==
  [][ \A e \in StoreCalls(history' \ history) : ~HasSettled(e.run) ]_vars

\* the key holds the hash
HoldsHash(key, hash) ==
  \E i \in 1..Len(key) : i + Len(hash) - 1 <= Len(key) /\ SubSeq(key, i, i + Len(hash) - 1) = hash

\* C38: for every gathered file that is not pre-hashed the digest value holds
\* the file's content hash and so differs from the file's original destination
\* key, and a hashed variant is uploaded for it unless a flag suppresses it;
\* for every file name, also one without any '.extension' suffix and one whose
\* last path segment starts with a dot.
C38_HashedKeyHoldsHash ==
  DigestEnded =>
    \A i \in 1..Len(gatheredFilePaths) :
      LET filePath == gatheredFilePaths[i]
          name == relativeFileName(filePath)
          value == DigestGet(digest, name)
      IN  ~PreHashed(name) =>
            /\ HoldsHash(value, hashFromFile(files, filePath))
            /\ value # s3KeyForRelativeFileName(options, name)
            /\ (i <= cursor /\ pc = "sync" /\ ~options.noUploadHashedFiles) =>
                 \E e \in history : e.op = "rewrite" /\ e.run = runs /\ e.path = filePath

\* C37: when run() is called on an instance while an earlier run() on it is
\* in flight, each run still resolves with a digest of exactly one entry per
\* file of the tree, processes each file exactly once and uploads a manifest
\* that holds every file: the gathered-file list never holds a path twice, and
\* the reset() of the run that settles does not empty the list, the fingerprint
\* map or the digest the other run is using.
C37_OverlappingRuns ==
  /\ \A i, j \in 1..Len(gatheredFilePaths) :
       gatheredFilePaths[i] = gatheredFilePaths[j] => i = j
  /\ pc \in {"digest", "sync"} => IteratedPaths = getFileNames(files)
  /\ pc \in {"sync", "manifest"} =>
       /\ digest = DigestOfRun
       /\ filePathToEtagMap = FreshEtags(files, Len(files))
  /\ \A e \in history :
       (e.op = "upload" /\ e.variant = "manifest") => e.body = JSONstringify(DigestOfRun)
  /\ \A i \in 1..Len(outcome) :
       /\ outcome[i].st = "resolved"
       /\ outcome[i].digest = DigestOfRun

TypeOK ==
  /\ pc \in {"idle", "gather", "digest", "sync", "manifest", "settled", "crashed"}
  /\ runs \in 0..MaxRuns
  /\ peer # <<>> => peer.runs \in 0..1

====
